---- MODULE Spec2Model ----
(***************************************************************************)
(* A model of three files of the transformers repository:                  *)
(*   models/vision_encoder_decoder/convert_trocr_unilm_to_pytorch.py       *)
(*   models/segformer/modeling_segformer.py                                *)
(*   utils/ade20k_classes.py                                               *)
(* Tensors are modelled by their shapes, or by the rows of the checkpoint  *)
(* tensor they are a slice of; Python exceptions by their class name.      *)
(***************************************************************************)
EXTENDS Integers, Sequences, FiniteSets, TLC

VARIABLES
    pc,              \* convert_tr_ocr_checkpoint: the statement to execute next
    checkpoint_url,  \* which of the substrings 'base' and 'large' the URL holds
    logits_shape,    \* the shape model(pixel_values).logits has when it is computed
    encoder_config,  \* ViTConfig
    decoder_config,  \* RobertaConfig
    state_dict,      \* the dict being converted: key -> tensor
    rename_keys,     \* the value bound to rename_keys at line 263
    error,           \* the exception that ended the run, or "none"
    steps,           \* the steps completed so far, in order
    disk,            \* what exists under pytorch_dump_folder_path
    call,            \* the last direct call of a function or method, with its result
    module           \* the torch module the calls are made on

vars == <<pc, checkpoint_url, logits_shape, encoder_config, decoder_config,
          state_dict, rename_keys, error, steps, disk, call, module>>

convert_vars == <<pc, checkpoint_url, logits_shape, encoder_config, decoder_config,
                  state_dict, rename_keys, error, steps, disk>>

(***************************************************************************)
(* Bounds of the model.                                                    *)
(***************************************************************************)
MaxLayers == 2      \* num_hidden_layers of the library's default configurations
MaxHidden == 2      \* hidden_size of the library's default ViT configuration

(***************************************************************************)
(* Python values.                                                          *)
(***************************************************************************)
\* None, and a list, as values of one shape
None == [is_none |-> TRUE, items |-> <<>>]
List(s) == [is_none |-> FALSE, items |-> s]

Min(a, b) == IF a <= b THEN a ELSE b
Max(a, b) == IF a >= b THEN a ELSE b

Range(s) == {s[n] : n \in 1..Len(s)}

RECURSIVE Flatten(_)
Flatten(ss) == IF ss = <<>> THEN <<>> ELSE Head(ss) \o Flatten(Tail(ss))

IsPrefix(s, t) == Len(s) <= Len(t) /\ SubSeq(t, 1, Len(s)) = s

\* dict.pop(k) on a present key, and dct[k] = v
DictPop(dct, k) == [x \in (DOMAIN dct) \ {k} |-> dct[x]]
DictSet(dct, k, v) == [x \in (DOMAIN dct) \cup {k} |-> IF x = k THEN v ELSE dct[x]]

\* rows [lo, hi) of the checkpoint tensor stored under src
Tensor(src, rows) == [src |-> src, lo |-> 0, hi |-> rows]
Rows(t) == t.hi - t.lo

\* t[start:stop, :] with 0 <= start, stop; Python clamps both to the length
SliceRows(t, start, stop) ==
    LET n == Rows(t)
        a == Min(start, n)
        b == Max(Min(stop, n), a)
    IN  [src |-> t.src, lo |-> t.lo + a, hi |-> t.lo + b]

\* t[-k:, :] with k > 0
LastRows(t, k) ==
    LET n == Rows(t)
    IN  [src |-> t.src, lo |-> t.lo + Max(n - k, 0), hi |-> t.hi]

(***************************************************************************)
(* create_rename_keys                                                      *)
(***************************************************************************)
EncBlock(i) == "encoder.deit.blocks." \o ToString(i)
EncLayer(i) == "encoder.encoder.layer." \o ToString(i)
DecSrc(j) == "decoder.layers." \o ToString(j)
DecLayer(j) == "decoder.encoder.layer." \o ToString(j)

\* the ten pairs appended for encoder layer i
EncoderLayerKeys(i) == <<
    <<EncBlock(i) \o ".norm1.weight", EncLayer(i) \o ".layernorm_before.weight">>,
    <<EncBlock(i) \o ".norm1.bias", EncLayer(i) \o ".layernorm_before.bias">>,
    <<EncBlock(i) \o ".attn.proj.weight", EncLayer(i) \o ".attention.output.dense.weight">>,
    <<EncBlock(i) \o ".attn.proj.bias", EncLayer(i) \o ".attention.output.dense.bias">>,
    <<EncBlock(i) \o ".norm2.weight", EncLayer(i) \o ".layernorm_after.weight">>,
    <<EncBlock(i) \o ".norm2.bias", EncLayer(i) \o ".layernorm_after.bias">>,
    <<EncBlock(i) \o ".mlp.fc1.weight", EncLayer(i) \o ".intermediate.dense.weight">>,
    <<EncBlock(i) \o ".mlp.fc1.bias", EncLayer(i) \o ".intermediate.dense.bias">>,
    <<EncBlock(i) \o ".mlp.fc2.weight", EncLayer(i) \o ".output.dense.weight">>,
    <<EncBlock(i) \o ".mlp.fc2.bias", EncLayer(i) \o ".output.dense.bias">> >>

\* cls token, position embeddings, patch embeddings and final norm of the encoder
EncoderEmbeddingKeys == <<
    <<"encoder.deit.cls_token", "encoder.embeddings.cls_token">>,
    <<"encoder.deit.pos_embed", "encoder.embeddings.position_embeddings">>,
    <<"encoder.deit.patch_embed.proj.weight", "encoder.embeddings.patch_embeddings.projection.weight">>,
    <<"encoder.deit.patch_embed.proj.bias", "encoder.embeddings.patch_embeddings.projection.bias">>,
    <<"encoder.deit.norm.weight", "encoder.layernorm.weight">>,
    <<"encoder.deit.norm.bias", "encoder.layernorm.bias">> >>

\* the 26 pairs appended for decoder layer j, as the source writes them
DecoderLayerKeys(j) == <<
    <<DecSrc(j) \o ".self_attn.k_proj.weight", DecLayer(j) \o ".attention.self.key.weight">>,
    <<DecSrc(j) \o ".self_attn.k_proj.bias", DecLayer(j) \o ".attention.self.key.bias">>,
    <<DecSrc(j) \o ".self_attn.q_proj.bias", DecLayer(j) \o ".attention.self.query.bias">>,
    <<DecSrc(j) \o ".self_attn.q_proj.bias", DecLayer(j) \o ".attention.self.query.bias">>,
    <<DecSrc(j) \o ".self_attn.v_proj.bias", DecLayer(j) \o ".attention.self.value.bias">>,
    <<DecSrc(j) \o ".self_attn.v_proj.bias", DecLayer(j) \o ".attention.self.value.bias">>,
    <<DecSrc(j) \o ".self_attn.out_proj.weight", DecLayer(j) \o ".attention.output.dense.weight">>,
    <<DecSrc(j) \o ".self_attn.out_proj.bias", DecLayer(j) \o ".attention.output.dense.bias">>,
    <<DecSrc(j) \o ".self_attn_layer_norm.weight", DecLayer(j) \o ".attention.output.LayerNorm.weight">>,
    <<DecSrc(j) \o ".self_attn_layer_norm.bias", DecLayer(j) \o ".attention.output.LayerNorm.bias">>,
    <<DecSrc(j) \o ".encoder_attn.k_proj.weight", DecLayer(j) \o ".crossattention.self.key.weight">>,
    <<DecSrc(j) \o ".encoder_attn.k_proj.bias", DecLayer(j) \o ".crossattention.self.key.bias">>,
    <<DecSrc(j) \o ".encoder_attn.q_proj.weight", DecLayer(j) \o ".crossattention.self.query.weight">>,
    <<DecSrc(j) \o ".encoder_attn.q_proj.bias", DecLayer(j) \o ".crossattention.self.query.bias">>,
    <<DecSrc(j) \o ".encoder_attn.v_proj.weight", DecLayer(j) \o ".crossattention.self.value.weight">>,
    <<DecSrc(j) \o ".encoder_attn.v_proj.bias", DecLayer(j) \o ".crossattention.self.value.bias">>,
    <<DecSrc(j) \o ".encoder_attn.out_proj.weight", DecLayer(j) \o ".crossattention.output.dense.weight">>,
    <<DecSrc(j) \o ".encoder_attn.out_proj.bias", DecLayer(j) \o ".crossattention.output.dense.weight">>,
    <<DecSrc(j) \o ".encoder_attn_layer_norm.weight", DecLayer(j) \o ".crossattention.output.LayerNorm.weight">>,
    <<DecSrc(j) \o ".encoder_attn_layer_norm.bias", DecLayer(j) \o ".crossattention.output.LayerNorm.bias">>,
    <<DecSrc(j) \o ".fc1.weight", DecLayer(j) \o ".intermediate.dense.weight">>,
    <<DecSrc(j) \o ".fc1.bias", DecLayer(j) \o ".intermediate.dense.bias">>,
    <<DecSrc(j) \o ".fc2.weight", DecLayer(j) \o ".output.dense.weight">>,
    <<DecSrc(j) \o ".fc2.bias", DecLayer(j) \o ".output.dense.bias">>,
    <<DecSrc(j) \o ".final_layer_norm.weight", DecLayer(j) \o ".output.LayerNorm.weight">>,
    <<DecSrc(j) \o ".final_layer_norm.bias", DecLayer(j) \o ".output.LayerNorm.weight">> >>

\* decoder embedding layer, position embeddings and layernorm
DecoderEmbeddingKeys == <<
    <<"decoder.embed_tokens.weight", "decoder.embeddings.word_embeddings.weight">>,
    <<"decoder.embed_positions.weight", "decoder.embeddings.position_embeddings.weight">>,
    <<"decoder.layernorm_embedding.weight", "decoder.embeddings.LayerNorm.weight">>,
    <<"decoder.layernorm_embedding.bias", "decoder.embeddings.LayerNorm.bias">> >>

\* the local list rename_keys when create_rename_keys reaches its last line
BuiltRenameKeys(enc_layers, dec_layers) ==
    Flatten([i \in 1..enc_layers |-> EncoderLayerKeys(i - 1)])
      \o EncoderEmbeddingKeys
      \o Flatten([j \in 1..dec_layers |-> DecoderLayerKeys(j - 1)])
      \o DecoderEmbeddingKeys

\* what the call evaluates to: the function has no return statement
create_rename_keys(enc_config, dec_config) == None

(***************************************************************************)
(* rename_key                                                              *)
(***************************************************************************)
\* the exception raised ("none" if none) and the dict after the call
rename_key(dct, old, new) ==
    IF old \notin DOMAIN dct
    THEN [raised |-> "KeyError", dct |-> dct]
    ELSE [raised |-> "none", dct |-> DictSet(DictPop(dct, old), new, dct[old])]

(***************************************************************************)
(* read_in_q_k_v                                                           *)
(***************************************************************************)
FusedKey(i) == EncBlock(i) \o ".attn.qkv.weight"

\* The loop body for layer 0: the pop of the fused key, then the first
\* assignment, whose key f"{prefix}encoder.layer..." reads prefix, a name
\* bound nowhere in the file; no later iteration is reached.
read_in_q_k_v(dct, enc_config) ==
    IF enc_config.num_hidden_layers <= 0
    THEN [raised |-> "none", dct |-> dct]
    ELSE IF FusedKey(0) \notin DOMAIN dct
         THEN [raised |-> "KeyError", dct |-> dct]
         ELSE [raised |-> "NameError", dct |-> DictPop(dct, FusedKey(0))]

(***************************************************************************)
(* convert_tr_ocr_checkpoint                                               *)
(***************************************************************************)
LargeHiddenSize == 1024
LargeIntermediateSize == 4096
LargeNumLayers == 24
LargeNumHeads == 16
BaseEncoderHiddenSize == 768

expected_shape == <<1, 1000>>

\* the shapes the logits of the converted model may have
LogitsShapes == {expected_shape, <<1, 2, 1000>>}

Urls == [base : BOOLEAN, large : BOOLEAN]

\* ViTConfig(image_size=384) and RobertaConfig.from_pretrained("roberta-large", ...)
DefaultEncoderConfigs ==
    {[hidden_size |-> h, intermediate_size |-> 4 * h, num_hidden_layers |-> n,
      num_attention_heads |-> 1, image_size |-> 384] :
        h \in 1..MaxHidden, n \in 0..MaxLayers}
DefaultDecoderConfigs ==
    {[num_hidden_layers |-> n, encoder_hidden_size |-> 0] : n \in 0..MaxLayers}

NoDict == [k \in {} |-> Tensor("", 0)]

HeadKeys == {"encoder.deit.head.weight", "encoder.deit.head.bias"}

\* the keys of a checkpoint of the original model with the configured depths
CheckpointKeys(enc_config, dec_config) ==
    {p[1] : p \in Range(BuiltRenameKeys(enc_config.num_hidden_layers,
                                        dec_config.num_hidden_layers))}
      \cup {FusedKey(i) : i \in 0..(enc_config.num_hidden_layers - 1)}
      \cup {DecSrc(j) \o ".self_attn.q_proj.weight" : j \in 0..(dec_config.num_hidden_layers - 1)}
      \cup {DecSrc(j) \o ".self_attn.v_proj.weight" : j \in 0..(dec_config.num_hidden_layers - 1)}
      \cup HeadKeys

CheckpointTensor(k, enc_config) ==
    IF \E i \in 0..(enc_config.num_hidden_layers - 1) : k = FusedKey(i)
    THEN Tensor(k, 3 * enc_config.hidden_size)
    ELSE Tensor(k, 1)

\* what torch.hub.load_state_dict_from_url may return: the full checkpoint,
\* or one that lacks one of its keys
Checkpoints(enc_config, dec_config) ==
    LET full == CheckpointKeys(enc_config, dec_config)
    IN  {[k \in ks |-> CheckpointTensor(k, enc_config)] :
            ks \in {full} \cup {full \ {k} : k \in full}}

\* for src, dest in rename_keys: rename_key(state_dict, src, dest)
RECURSIVE RenameAll(_, _)
RenameAll(dct, pairs) ==
    IF pairs = <<>> THEN [raised |-> "none", dct |-> dct]
    ELSE LET r == rename_key(dct, Head(pairs)[1], Head(pairs)[2])
         IN  IF r.raised # "none" THEN r ELSE RenameAll(r.dct, Tail(pairs))

RenameLoop(dct, keys) ==
    IF keys.is_none THEN [raised |-> "TypeError", dct |-> dct]
    ELSE RenameAll(dct, keys.items)

\* del state_dict["encoder.deit.head.weight"]; del state_dict["encoder.deit.head.bias"]
DeleteHead(dct) ==
    IF "encoder.deit.head.weight" \notin DOMAIN dct
    THEN [raised |-> "KeyError", dct |-> dct]
    ELSE IF "encoder.deit.head.bias" \notin DOMAIN dct
         THEN [raised |-> "KeyError", dct |-> DictPop(dct, "encoder.deit.head.weight")]
         ELSE [raised |-> "none",
               dct |-> DictPop(DictPop(dct, "encoder.deit.head.weight"), "encoder.deit.head.bias")]

Goto(next) == pc' = next /\ error' = error
Raise(exc) == pc' = "failed" /\ error' = exc
Did(step) == steps' = Append(steps, step)

\* lines 243-253 with 'large' tested before 'base'
SelectArchitectureLargeFirst ==
    /\ IF checkpoint_url.large
       THEN /\ encoder_config' = [encoder_config EXCEPT
                                     !.hidden_size = LargeHiddenSize,
                                     !.intermediate_size = LargeIntermediateSize,
                                     !.num_hidden_layers = LargeNumLayers,
                                     !.num_attention_heads = LargeNumHeads]
            /\ decoder_config' = [decoder_config EXCEPT !.encoder_hidden_size = LargeHiddenSize]
            /\ Goto("build_model")
       ELSE IF checkpoint_url.base
            THEN /\ decoder_config' = [decoder_config EXCEPT !.encoder_hidden_size = BaseEncoderHiddenSize]
                 /\ encoder_config' = encoder_config
                 /\ Goto("build_model")
            ELSE /\ Raise("ValueError")
                 /\ UNCHANGED <<encoder_config, decoder_config>>
    /\ UNCHANGED <<state_dict, rename_keys, steps, disk>>

\* lines 243-253
SelectArchitecture ==
    /\ IF checkpoint_url.base
       THEN /\ decoder_config' = [decoder_config EXCEPT !.encoder_hidden_size = BaseEncoderHiddenSize]
            /\ encoder_config' = encoder_config
            /\ Goto("build_model")
       ELSE IF checkpoint_url.large
            THEN /\ encoder_config' = [encoder_config EXCEPT
                                          !.hidden_size = LargeHiddenSize,
                                          !.intermediate_size = LargeIntermediateSize,
                                          !.num_hidden_layers = LargeNumLayers,
                                          !.num_attention_heads = LargeNumHeads]
                 /\ decoder_config' = [decoder_config EXCEPT !.encoder_hidden_size = LargeHiddenSize]
                 /\ Goto("build_model")
            ELSE /\ Raise("ValueError")
                 /\ UNCHANGED <<encoder_config, decoder_config>>
    /\ UNCHANGED <<state_dict, rename_keys, steps, disk>>

\* lines 256-259
BuildModel ==
    /\ Goto("load_state_dict_from_url")
    /\ UNCHANGED <<encoder_config, decoder_config, state_dict, rename_keys, steps, disk>>

\* line 262
LoadStateDictFromUrl ==
    /\ \E sd \in Checkpoints(encoder_config, decoder_config) : state_dict' = sd
    /\ Did("load")
    /\ Goto("create_rename_keys")
    /\ UNCHANGED <<encoder_config, decoder_config, rename_keys, disk>>

\* line 263
CreateRenameKeys ==
    /\ rename_keys' = create_rename_keys(encoder_config, decoder_config)
    /\ Goto("rename_loop")
    /\ UNCHANGED <<encoder_config, decoder_config, state_dict, steps, disk>>

\* lines 264-265
RenameKeys ==
    LET r == RenameLoop(state_dict, rename_keys)
    IN  /\ state_dict' = r.dct
        /\ IF r.raised = "none"
           THEN Did("rename") /\ Goto("read_in_q_k_v")
           ELSE Raise(r.raised) /\ steps' = steps
        /\ UNCHANGED <<encoder_config, decoder_config, rename_keys, disk>>

\* line 266
ReadInQKV ==
    LET r == read_in_q_k_v(state_dict, encoder_config)
    IN  /\ state_dict' = r.dct
        /\ IF r.raised = "none"
           THEN Did("split") /\ Goto("delete_head")
           ELSE Raise(r.raised) /\ steps' = steps
        /\ UNCHANGED <<encoder_config, decoder_config, rename_keys, disk>>

\* lines 268-269
DeleteHeadKeys ==
    LET r == DeleteHead(state_dict)
    IN  /\ state_dict' = r.dct
        /\ IF r.raised = "none"
           THEN Did("delete_head") /\ Goto("load_state_dict")
           ELSE Raise(r.raised) /\ steps' = steps
        /\ UNCHANGED <<encoder_config, decoder_config, rename_keys, disk>>

\* line 272
LoadIntoModel ==
    /\ Did("load_model")
    /\ Goto("assert_shape")
    /\ UNCHANGED <<encoder_config, decoder_config, state_dict, rename_keys, disk>>

\* lines 275-284
AssertShape ==
    /\ IF logits_shape = expected_shape
       THEN Did("assert") /\ Goto("save_model")
       ELSE Raise("AssertionError") /\ steps' = steps
    /\ UNCHANGED <<encoder_config, decoder_config, state_dict, rename_keys, disk>>

\* lines 286-288
SaveModel ==
    /\ disk' = disk \cup {"folder", "model"}
    /\ Did("save_model")
    /\ Goto("save_feature_extractor")
    /\ UNCHANGED <<encoder_config, decoder_config, state_dict, rename_keys>>

\* lines 289-290
SaveFeatureExtractor ==
    /\ disk' = disk \cup {"feature_extractor"}
    /\ Did("save_feature_extractor")
    /\ Goto("done")
    /\ UNCHANGED <<encoder_config, decoder_config, state_dict, rename_keys>>

\* the statement at pc
Statement ==
    CASE pc = "select_architecture" -> SelectArchitecture
      [] pc = "build_model" -> BuildModel
      [] pc = "load_state_dict_from_url" -> LoadStateDictFromUrl
      [] pc = "create_rename_keys" -> CreateRenameKeys
      [] pc = "rename_loop" -> RenameKeys
      [] pc = "read_in_q_k_v" -> ReadInQKV
      [] pc = "delete_head" -> DeleteHeadKeys
      [] pc = "load_state_dict" -> LoadIntoModel
      [] pc = "assert_shape" -> AssertShape
      [] pc = "save_model" -> SaveModel
      [] pc = "save_feature_extractor" -> SaveFeatureExtractor

\* one step of convert_tr_ocr_checkpoint
convert_tr_ocr_checkpoint ==
    /\ pc \notin {"done", "failed"}
    /\ Statement
    /\ UNCHANGED <<checkpoint_url, logits_shape, call, module>>

NoCall == [fn |-> "none"]
NoModule == [kind |-> "none"]

Init ==
    /\ pc = "select_architecture"
    /\ checkpoint_url \in Urls
    /\ logits_shape \in LogitsShapes
    /\ encoder_config \in DefaultEncoderConfigs
    /\ decoder_config \in DefaultDecoderConfigs
    /\ state_dict = NoDict
    /\ rename_keys = None
    /\ error = "none"
    /\ steps = <<>>
    /\ disk = {}
    /\ call = NoCall
    /\ module = NoModule

Next == convert_tr_ocr_checkpoint

Spec == Init /\ [][Next]_vars

(***************************************************************************)
(* The functions of the converter, called on their own.                    *)
(***************************************************************************)
\* keys of the dicts the functions are called with
CallKeys == {FusedKey(0), FusedKey(1), "encoder.deit.norm.weight", "encoder.layernorm.weight"}
CallDicts == UNION {[ks -> {Tensor("w", 3 * h) : h \in 1..MaxHidden}] : ks \in SUBSET CallKeys}

CallCreateRenameKeys ==
    /\ call = NoCall
    /\ UNCHANGED <<convert_vars, module>>
    /\ \E ec \in DefaultEncoderConfigs, dc \in DefaultDecoderConfigs :
        call' = [fn |-> "create_rename_keys",
                 enc_layers |-> ec.num_hidden_layers,
                 dec_layers |-> dc.num_hidden_layers,
                 built |-> BuiltRenameKeys(ec.num_hidden_layers, dc.num_hidden_layers),
                 returned |-> create_rename_keys(ec, dc)]

CallRenameKey ==
    /\ call = NoCall
    /\ UNCHANGED <<convert_vars, module>>
    /\ \E dct \in CallDicts, old \in CallKeys, new \in CallKeys :
        LET r == rename_key(dct, old, new)
        IN  call' = [fn |-> "rename_key", dct |-> dct, old |-> old, new |-> new,
                     raised |-> r.raised, after |-> r.dct]

CallReadInQKV ==
    /\ call = NoCall
    /\ UNCHANGED <<convert_vars, module>>
    /\ \E dct \in CallDicts, ec \in DefaultEncoderConfigs :
        LET r == read_in_q_k_v(dct, ec)
        IN  call' = [fn |-> "read_in_q_k_v", dct |-> dct, config |-> ec,
                     raised |-> r.raised, after |-> r.dct]

InitFn ==
    /\ pc = "done"
    /\ checkpoint_url = [base |-> TRUE, large |-> FALSE]
    /\ logits_shape = expected_shape
    /\ encoder_config \in {c \in DefaultEncoderConfigs : c.hidden_size = 1 /\ c.num_hidden_layers = 0}
    /\ decoder_config \in {c \in DefaultDecoderConfigs : c.num_hidden_layers = 0}
    /\ state_dict = NoDict
    /\ rename_keys = None
    /\ error = "none"
    /\ steps = <<>>
    /\ disk = {}
    /\ call = NoCall
    /\ module = NoModule

NextFn ==
    \/ CallCreateRenameKeys
    \/ CallRenameKey
    \/ CallReadInQKV

SpecFn == InitFn /\ [][NextFn]_vars

(***************************************************************************)
(* modeling_segformer.py.  A tensor is its shape, a tuple of integers.     *)
(***************************************************************************)
MaxSide == 6          \* height and width of an input
MaxPatch == 3         \* patch_size
MaxStride == 2        \* stride
MaxSr == 3            \* sr_ratio
MaxBatch == 2         \* batch size
MaxChannels == 2      \* num_channels
MaxHiddenSize == 4    \* hidden_size
MaxHeads == 3         \* num_attention_heads
ElemsPerSample == 2   \* elements of one sample of a tensor given by its values
ProbDen == 4          \* drop probabilities are 0/ProbDen .. (ProbDen - 1)/ProbDen
MaxBlocks == 4        \* num_encoder_blocks
MaxImage == 16        \* image_size
MaxDepth == 2         \* depths[i]
MaxTupleLen == 3      \* length of a tuple given as encoder_outputs

Raised(exc) == [raised |-> exc]
Ok(r) == r.raised = "none"

\* nn.Conv2d: the size of one spatial dimension of the output; 0 when the
\* padded input is smaller than the kernel, which torch rejects
Conv2dOut(n, kernel_size, stride, padding) ==
    IF n + 2 * padding < kernel_size THEN 0
    ELSE ((n + 2 * padding - kernel_size) \div stride) + 1

\* padding=(patch_size[0] // 2, patch_size[1] // 2)
PatchPaddingNone(patch_size) == 0
PatchPadding(patch_size) == patch_size \div 2

\* SegFormerOverlapPatchEmbeddings.__init__
SegFormerOverlapPatchEmbeddings(image_size, patch_size, stride, num_channels, hidden_size) ==
    [kind |-> "patch_embeddings",
     height |-> image_size \div patch_size,
     width |-> image_size \div patch_size,
     num_patches |-> (image_size \div patch_size) * (image_size \div patch_size),
     in_channels |-> num_channels,
     out_channels |-> hidden_size,
     kernel_size |-> patch_size,
     stride |-> stride,
     padding |-> PatchPadding(patch_size),
     layer_norm |-> hidden_size]

\* SegFormerOverlapPatchEmbeddings.forward: (x, height, width)
PatchEmbeddingsForward(m, pixel_values) ==
    LET height == Conv2dOut(pixel_values[3], m.kernel_size, m.stride, m.padding)
        width == Conv2dOut(pixel_values[4], m.kernel_size, m.stride, m.padding)
    IN  IF pixel_values[2] # m.in_channels \/ height = 0 \/ width = 0
        THEN [raised |-> "RuntimeError", x |-> <<>>, height |-> 0, width |-> 0]
        ELSE [raised |-> "none",
              x |-> <<pixel_values[1], height * width, m.out_channels>>,
              height |-> height, width |-> width]

\* the constructor without the check of lines 174-178
SegFormerEfficientSelfAttentionUnchecked(hidden_size, num_attention_heads, sr_ratio) ==
    [kind |-> "self_attention",
     hidden_size |-> hidden_size,
     num_attention_heads |-> num_attention_heads,
     attention_head_size |-> hidden_size \div num_attention_heads,
     all_head_size |-> num_attention_heads * (hidden_size \div num_attention_heads),
     query |-> [in_features |-> hidden_size,
                out_features |-> num_attention_heads * (hidden_size \div num_attention_heads)],
     key |-> [in_features |-> hidden_size,
              out_features |-> num_attention_heads * (hidden_size \div num_attention_heads)],
     value |-> [in_features |-> hidden_size,
                out_features |-> num_attention_heads * (hidden_size \div num_attention_heads)],
     sr_ratio |-> sr_ratio]

\* SegFormerEfficientSelfAttention.__init__
SegFormerEfficientSelfAttention(hidden_size, num_attention_heads, sr_ratio) ==
    IF hidden_size % num_attention_heads # 0
    THEN [kind |-> "raised", raised |-> "ValueError"]
    ELSE LET attention_head_size == hidden_size \div num_attention_heads
             all_head_size == num_attention_heads * attention_head_size
         IN  [kind |-> "self_attention",
              hidden_size |-> hidden_size,
              num_attention_heads |-> num_attention_heads,
              attention_head_size |-> attention_head_size,
              all_head_size |-> all_head_size,
              query |-> [in_features |-> hidden_size, out_features |-> all_head_size],
              key |-> [in_features |-> hidden_size, out_features |-> all_head_size],
              value |-> [in_features |-> hidden_size, out_features |-> all_head_size],
              sr_ratio |-> sr_ratio]

\* nn.Linear applied to x: the last dimension becomes out_features
Linear(layer, x) ==
    IF x = <<>> \/ x[Len(x)] # layer.in_features THEN <<>>
    ELSE [x EXCEPT ![Len(x)] = layer.out_features]

\* transpose_for_scores: (batch, seq, features) -> (batch, heads, seq, head size)
transpose_for_scores(m, x) ==
    IF x = <<>> \/ x[3] # m.num_attention_heads * m.attention_head_size THEN <<>>
    ELSE <<x[1], m.num_attention_heads, x[2], m.attention_head_size>>

\* lines 212-216: the hidden states the keys and values are computed from
SpatialReduction(m, hidden_states, height, width) ==
    IF m.sr_ratio > 1
    THEN LET h == Conv2dOut(height, m.sr_ratio, m.sr_ratio, 0)
             w == Conv2dOut(width, m.sr_ratio, m.sr_ratio, 0)
         IN  IF hidden_states[2] # height * width \/ hidden_states[3] # m.hidden_size
                  \/ h = 0 \/ w = 0
             THEN <<>>
             ELSE <<hidden_states[1], h * w, hidden_states[3]>>
    ELSE hidden_states

\* line 210: the query is computed from the hidden states as passed in
QueryInputReduced(m, hidden_states, height, width) ==
    SpatialReduction(m, hidden_states, height, width)
QueryInput(m, hidden_states, height, width) == hidden_states

\* lines 212-219: a key or value layer, computed from the reduced hidden states
KeyValueLayer(m, layer, reduced) ==
    IF reduced = <<>> THEN <<>> ELSE transpose_for_scores(m, Linear(layer, reduced))

\* lines 221-245: scores, probabilities, context layer and the outputs tuple
SelfAttentionOutputs(m, query_layer, key_layer, value_layer, head_mask, output_attentions) ==
    IF query_layer = <<>> \/ key_layer = <<>> \/ value_layer = <<>>
         \/ m.all_head_size # query_layer[2] * value_layer[4]
    THEN [raised |-> "RuntimeError", outputs |-> <<>>, masked |-> "None"]
    ELSE [raised |-> "none",
          outputs |-> IF output_attentions = "True"
                      THEN << <<query_layer[1], query_layer[3], m.all_head_size>>,
                              <<query_layer[1], query_layer[2], query_layer[3], key_layer[3]>> >>
                      ELSE << <<query_layer[1], query_layer[3], m.all_head_size>> >>,
          masked |-> head_mask]

\* SegFormerEfficientSelfAttention.forward: outputs is (context_layer,
\* attention_probs) or (context_layer,)
SelfAttentionForward(m, hidden_states, height, width, attention_mask, head_mask, output_attentions) ==
    SelfAttentionOutputs(
        m,
        transpose_for_scores(m, Linear(m.query, QueryInput(m, hidden_states, height, width))),
        KeyValueLayer(m, m.key, SpatialReduction(m, hidden_states, height, width)),
        KeyValueLayer(m, m.value, SpatialReduction(m, hidden_states, height, width)),
        head_mask, output_attentions)

(***************************************************************************)
(* drop_path and DropPath.  Here a tensor is given by its values, one      *)
(* sequence of rationals <<numerator, denominator>> per sample.            *)
(***************************************************************************)
RECURSIVE GCD(_, _)
GCD(a, b) == IF b = 0 THEN a ELSE GCD(b, a % b)

Abs(n) == IF n < 0 THEN -n ELSE n

\* the rational n/d, d > 0, in lowest terms
Rat(n, d) == IF n = 0 THEN <<0, 1>> ELSE LET g == GCD(Abs(n), d) IN <<n \div g, d \div g>>
RatDiv(a, b) == Rat(a[1] * b[2], a[2] * b[1])
RatTimesInt(a, k) == Rat(a[1] * k, a[2])

\* keep_prob = 1 - drop_prob
KeepProbOne(drop_prob) == <<1, 1>>
KeepProb(drop_prob) == Rat(drop_prob[2] - drop_prob[1], drop_prob[2])

\* line 76: the early return
DropPathIsIdentityTrainingIgnored(drop_prob, training) == drop_prob[1] = 0
DropPathIsIdentity(drop_prob, training) == drop_prob[1] = 0 \/ ~training

\* drop_path(x, drop_prob, training); random_tensor is the value of
\* floor(keep_prob + torch.rand(shape)), one 0 or 1 per sample, used only
\* past the early return
drop_path(x, drop_prob, training, random_tensor) ==
    IF DropPathIsIdentity(drop_prob, training)
    THEN [output |-> x, rand_drawn |-> FALSE, divided |-> FALSE]
    ELSE [output |-> [b \in DOMAIN x |->
                        [e \in DOMAIN x[b] |->
                            RatTimesInt(RatDiv(x[b][e], KeepProb(drop_prob)), random_tensor[b])]],
          rand_drawn |-> TRUE, divided |-> TRUE]

\* DropPath.__init__, with the training flag nn.Module keeps
DropPath(drop_prob, training) ==
    [kind |-> "drop_path", drop_prob |-> drop_prob, training |-> training]

\* DropPath.forward
DropPathForward(m, x, random_tensor) == drop_path(x, m.drop_prob, m.training, random_tensor)

XValues == {<<0, 1>>, <<3, 1>>}
XTensors == UNION {[1..b -> [1..ElemsPerSample -> XValues]] : b \in 1..MaxBatch}

\* the drop probabilities 0, 1/ProbDen, .., (ProbDen - 1)/ProbDen
DropProbs == {Rat(p, ProbDen) : p \in 0..(ProbDen - 1)}

\* the values random_tensor can take for a batch: none is drawn on the early return
RandomTensors(x, drop_prob, training) ==
    IF DropPathIsIdentity(drop_prob, training) THEN {[b \in DOMAIN x |-> 1]}
    ELSE [DOMAIN x -> {0, 1}]

CallDropPath ==
    /\ module = NoModule
    /\ call = NoCall
    /\ \E x \in XTensors, p \in DropProbs, training \in BOOLEAN :
        \E r \in RandomTensors(x, p, training) :
            call' = [fn |-> "drop_path", x |-> x, drop_prob |-> p, training |-> training,
                     result |-> drop_path(x, p, training, r)]
    /\ UNCHANGED <<convert_vars, module>>

NewDropPath ==
    /\ module = NoModule
    /\ call = NoCall
    /\ \E p \in DropProbs, training \in BOOLEAN : module' = DropPath(p, training)
    /\ UNCHANGED <<convert_vars, call>>

CallDropPathForward ==
    /\ module.kind = "drop_path"
    /\ call = NoCall
    /\ \E x \in XTensors :
        \E r \in RandomTensors(x, module.drop_prob, module.training) :
            call' = [fn |-> "DropPath.forward", x |-> x,
                     drop_prob |-> module.drop_prob, training |-> module.training,
                     result |-> DropPathForward(module, x, r)]
    /\ UNCHANGED <<convert_vars, module>>

(***************************************************************************)
(* SegFormerAttention, SegFormerMixFFN, SegFormerEncoderLayer              *)
(***************************************************************************)
\* SegFormerAttention.__init__
SegFormerAttention(hidden_size, num_attention_heads, sr_ratio) ==
    LET inner == SegFormerEfficientSelfAttention(hidden_size, num_attention_heads, sr_ratio)
    IN  IF inner.kind = "raised" THEN inner
        ELSE [kind |-> "attention", self |-> inner, pruned_heads |-> {}]

\* find_pruneable_heads_and_indices(heads, n_heads, head_size, already_pruned_heads):
\* the heads not pruned yet, and the positions of the rows to keep; each head
\* is shifted down by the number of pruned heads before it, and mask[head] of
\* a head past the mask raises IndexError
ShiftedHead(head, already_pruned_heads) ==
    head - Cardinality({h \in already_pruned_heads : h < head})

find_pruneable_heads_and_indices(heads, n_heads, head_size, already_pruned_heads) ==
    LET new_heads == heads \ already_pruned_heads
        masked == {ShiftedHead(head, already_pruned_heads) : head \in new_heads}
    IN  IF \E head \in masked : head >= n_heads
        THEN [raised |-> "IndexError", heads |-> new_heads, index |-> {}]
        ELSE [raised |-> "none", heads |-> new_heads,
              index |-> {head * head_size + e : head \in (0..(n_heads - 1)) \ masked,
                                                e \in 0..(head_size - 1)}]

\* prune_linear_layer(layer, index): the rows at index are kept; index_select
\* raises for a position past the rows the layer has
prune_linear_layer(layer, index) ==
    IF \E position \in index : position >= layer.out_features
    THEN [raised |-> "IndexError", layer |-> layer]
    ELSE [raised |-> "none", layer |-> [layer EXCEPT !.out_features = Cardinality(index)]]

\* the attribute self.output: SegFormerAttention.__init__ sets none
HasOutput(m) == "output" \in DOMAIN m

\* lines 277-279: the query, key and value layers pruned in turn, each
\* assigned before the next is pruned
PrunedValue(m, found, pruned) ==
    IF pruned.raised # "none" THEN [raised |-> pruned.raised, module |-> m]
    ELSE [raised |-> "none", module |-> [m EXCEPT !.self.value = pruned.layer]]

PrunedKey(m, found, pruned) ==
    IF pruned.raised # "none" THEN [raised |-> pruned.raised, module |-> m]
    ELSE PrunedValue([m EXCEPT !.self.key = pruned.layer], found,
                     prune_linear_layer(m.self.value, found.index))

PrunedQuery(m, found, pruned) ==
    IF pruned.raised # "none" THEN [raised |-> pruned.raised, module |-> m]
    ELSE PrunedKey([m EXCEPT !.self.query = pruned.layer], found,
                   prune_linear_layer(m.self.key, found.index))

\* lines 280-285: self.output.dense is read, then the hyper parameters and
\* pruned_heads are updated
PrunedOutput(m, found, layers) ==
    IF layers.raised # "none" THEN layers
    ELSE IF ~HasOutput(layers.module)
    THEN [raised |-> "AttributeError", module |-> layers.module]
    ELSE [raised |-> "none",
          module |-> [layers.module EXCEPT
              !.self.num_attention_heads = @ - Cardinality(found.heads),
              !.self.all_head_size =
                  m.self.attention_head_size * (m.self.num_attention_heads - Cardinality(found.heads)),
              !.pruned_heads = @ \cup found.heads]]

PruneFound(m, found) ==
    IF found.raised # "none" THEN [raised |-> found.raised, module |-> m]
    ELSE PrunedOutput(m, found,
                      PrunedQuery(m, found, prune_linear_layer(m.self.query, found.index)))

\* SegFormerAttention.prune_heads
prune_heads(m, heads) ==
    IF Cardinality(heads) = 0 THEN [raised |-> "none", module |-> m]
    ELSE PruneFound(m, find_pruneable_heads_and_indices(
                           heads, m.self.num_attention_heads, m.self.attention_head_size,
                           m.pruned_heads))

\* SegFormerAttention.forward: self.self is called with five positional
\* arguments, so head_mask lands on the parameter attention_mask and
\* output_attentions on the parameter head_mask
AttentionForward(m, hidden_states, height, width, head_mask, output_attentions) ==
    SelfAttentionForward(m.self, hidden_states, height, width,
                         head_mask, output_attentions, "False")

\* the shape of a + b for two tensors of one rank; <<>> when they do not broadcast
AddShapes(a, b) ==
    IF a = <<>> \/ b = <<>> \/ Len(a) # Len(b) THEN <<>>
    ELSE IF \E n \in 1..Len(a) : a[n] # b[n] /\ a[n] # 1 /\ b[n] # 1 THEN <<>>
    ELSE [n \in 1..Len(a) |-> Max(a[n], b[n])]

\* SegFormerMixFFN.forward, with the view of SegFormerDWConv.forward
MixFFNForward(mlp, hidden_states, height, width) ==
    LET dense1 == Linear([in_features |-> mlp.in_features, out_features |-> mlp.hidden_features],
                         hidden_states)
    IN  IF dense1 = <<>> \/ dense1[2] # height * width THEN <<>>
        ELSE Linear([in_features |-> mlp.hidden_features, out_features |-> mlp.out_features], dense1)

\* DropPath(drop_path) if drop_path > 0. else nn.Identity()
LayerDropPath(rate) == IF rate[1] > 0 THEN DropPath(rate, TRUE) ELSE [kind |-> "identity"]

\* SegFormerEncoderLayer.__init__
SegFormerEncoderLayer(hidden_size, num_attention_heads, rate, sr_ratio, mlp_ratio) ==
    LET attention == SegFormerAttention(hidden_size, num_attention_heads, sr_ratio)
    IN  IF attention.kind = "raised" THEN attention
        ELSE [kind |-> "encoder_layer",
              attention |-> attention,
              drop_path |-> LayerDropPath(rate),
              mlp |-> [in_features |-> hidden_size,
                       hidden_features |-> hidden_size * mlp_ratio,
                       out_features |-> hidden_size]]

\* hidden_states = attention_output + hidden_states
FirstResidual(self_attention_outputs, hidden_states) ==
    IF ~Ok(self_attention_outputs) THEN <<>>
    ELSE AddShapes(self_attention_outputs.outputs[1], hidden_states)

\* layer_output = mlp_output + hidden_states
SecondResidual(layer, hidden_states, height, width) ==
    IF hidden_states = <<>> THEN <<>>
    ELSE AddShapes(MixFFNForward(layer.mlp, hidden_states, height, width), hidden_states)

\* SegFormerEncoderLayer.forward: the shape of layer_output, <<>> if it raises
EncoderLayerForward(layer, hidden_states, height, width, head_mask, output_attentions) ==
    SecondResidual(layer,
                   FirstResidual(AttentionForward(layer.attention, hidden_states, height, width,
                                                  head_mask, output_attentions),
                                 hidden_states),
                   height, width)

(***************************************************************************)
(* SegFormerEncoder                                                        *)
(***************************************************************************)
RECURSIVE SumTo(_, _)
SumTo(s, n) == IF n <= 0 THEN 0 ELSE s[n] + SumTo(s, n - 1)
RECURSIVE ProductTo(_, _)
ProductTo(s, n) == IF n <= 0 THEN 1 ELSE s[n] * ProductTo(s, n - 1)

\* torch.linspace(0, drop_path_rate, total)[k], k from 0
Linspace(rate, total, k) ==
    IF total <= 1 THEN <<0, 1>> ELSE Rat(rate[1] * k, rate[2] * (total - 1))

\* num_channels=config.hidden_sizes[i-1] if i != 0 else config.num_channels (i from 1 here)
StageInChannelsOwn(config, i) == config.hidden_sizes[i]
StageInChannels(config, i) == IF i # 1 THEN config.hidden_sizes[i - 1] ELSE config.num_channels

\* cur + j for layer j of block i, where cur has been raised by depths[i-1]
\* at each block after the first (i and j from 1 here, the index from 0)
DprIndexWithoutCur(config, i, j) == j - 1
DprIndex(config, i, j) == SumTo(config.depths, i - 1) + j - 1

\* the layers of block i, or the exception the first failing layer raises
StageLayers(config, i) ==
    LET total == SumTo(config.depths, Len(config.depths))
        layers == [j \in 1..config.depths[i] |->
                      SegFormerEncoderLayer(config.hidden_sizes[i], config.encoder_attention_heads[i],
                                            Linspace(config.drop_path_rate, total, DprIndex(config, i, j)),
                                            config.sr_ratios[i], config.mlp_ratio[i])]
    IN  IF \E j \in 1..config.depths[i] : layers[j].kind = "raised"
        THEN [kind |-> "raised", raised |-> "ValueError"]
        ELSE [kind |-> "layers", layers |-> layers]

\* SegFormerEncoder.__init__
SegFormerEncoder(config) ==
    LET n == config.num_encoder_blocks
        embeddings == [i \in 1..n |->
            SegFormerOverlapPatchEmbeddings(config.image_size \div config.downsampling_rates[i],
                                            config.patch_sizes[i], config.strides[i],
                                            StageInChannels(config, i), config.hidden_sizes[i])]
        blocks == [i \in 1..n |-> StageLayers(config, i)]
    IN  IF \E i \in 1..n : blocks[i].kind = "raised"
        THEN [kind |-> "raised", raised |-> "ValueError"]
        ELSE [kind |-> "encoder",
              patch_embeddings |-> embeddings,
              block |-> [i \in 1..n |-> blocks[i].layers],
              layer_norm |-> [i \in 1..n |-> config.hidden_sizes[i]]]

\* the layers of one block applied in turn: the shape after each layer, up to
\* the first that raises
RECURSIVE BlockForward(_, _, _, _, _)
BlockRest(layers, j, out, height, width) ==
    IF out = <<>> THEN << <<>> >>
    ELSE <<out>> \o BlockForward(layers, j + 1, out, height, width)

BlockForward(layers, j, hidden_states, height, width) ==
    IF j > Len(layers) THEN <<>>
    ELSE BlockRest(layers, j,
                   EncoderLayerForward(layers[j], hidden_states, height, width, "None", "False"),
                   height, width)

StageFailed ==
    [raised |-> "RuntimeError", height |-> 0, width |-> 0, embedded |-> <<>>,
     layer_outputs |-> <<>>, feature |-> <<>>]

\* lines 447-450 without the reshape and permute
StageNormedOnly(enc, i, embedded, outs, last, batch_size) ==
    IF last = <<>> \/ last[3] # enc.layer_norm[i] THEN StageFailed
    ELSE [raised |-> "none", height |-> embedded.height, width |-> embedded.width,
          embedded |-> embedded.x, layer_outputs |-> outs, feature |-> last]

\* lines 447-450: layer norm, then reshape and permute to (batch, channels, height, width)
StageNormed(enc, i, embedded, outs, last, batch_size) ==
    IF last = <<>> \/ last[3] # enc.layer_norm[i] THEN StageFailed
    ELSE [raised |-> "none", height |-> embedded.height, width |-> embedded.width,
          embedded |-> embedded.x, layer_outputs |-> outs,
          feature |-> <<batch_size,
                        (last[1] * last[2] * last[3])
                            \div (batch_size * embedded.height * embedded.width),
                        embedded.height, embedded.width>>]

\* lines 444-446: the layers of block i
StageBlocks(enc, i, embedded, outs, batch_size) ==
    StageNormed(enc, i, embedded, outs,
                IF outs = <<>> THEN embedded.x ELSE outs[Len(outs)], batch_size)

\* lines 442-443: the patch embeddings of block i
StageEmbedded(enc, i, embedded, batch_size) ==
    IF ~Ok(embedded) THEN StageFailed
    ELSE StageBlocks(enc, i, embedded,
                     BlockForward(enc.block[i], 1, embedded.x, embedded.height, embedded.width),
                     batch_size)

\* one pass of the loop of SegFormerEncoder.forward, lines 440-450
StageForward(enc, i, hidden_states, batch_size) ==
    StageEmbedded(enc, i, PatchEmbeddingsForward(enc.patch_embeddings[i], hidden_states),
                  batch_size)

\* the passes of the loop in turn, up to the first that raises
RECURSIVE StagesForward(_, _, _, _)
StagesRest(enc, i, st, batch_size) ==
    IF ~Ok(st) THEN <<st>>
    ELSE <<st>> \o StagesForward(enc, i + 1, st.feature, batch_size)

StagesForward(enc, i, hidden_states, batch_size) ==
    IF i > Len(enc.patch_embeddings) THEN <<>>
    ELSE StagesRest(enc, i, StageForward(enc, i, hidden_states, batch_size), batch_size)

\* lines 487-501: what the encoder returns, a tuple of the values that are
\* not None or a BaseModelOutput
EncoderOutputs(stages, pixel_values, all_hidden_states, all_self_attentions, return_dict) ==
    IF stages # <<>> /\ ~Ok(stages[Len(stages)])
    THEN [raised |-> "RuntimeError", type |-> "none", stages |-> stages,
          last_hidden_state |-> <<>>, hidden_states |-> None, attentions |-> None, length |-> 0]
    ELSE [raised |-> "none",
          type |-> IF return_dict THEN "BaseModelOutput" ELSE "tuple",
          stages |-> stages,
          last_hidden_state |-> IF stages = <<>> THEN pixel_values
                                ELSE stages[Len(stages)].feature,
          hidden_states |-> all_hidden_states,
          attentions |-> all_self_attentions,
          length |-> 1 + (IF all_hidden_states.is_none THEN 0 ELSE 1)
                      + (IF all_self_attentions.is_none THEN 0 ELSE 1)]

\* SegFormerEncoder.forward: all_hidden_states and all_self_attentions start
\* as () or None and nothing is added to them
EncoderForward(enc, pixel_values, output_attentions, output_hidden_states, return_dict) ==
    EncoderOutputs(StagesForward(enc, 1, pixel_values, pixel_values[1]), pixel_values,
                   IF output_hidden_states THEN List(<<>>) ELSE None,
                   IF output_attentions THEN List(<<>>) ELSE None,
                   return_dict)

(***************************************************************************)
(* SegFormerModel                                                          *)
(***************************************************************************)
\* SegFormerModel.__init__
SegFormerModel(config) ==
    LET encoder == SegFormerEncoder(config)
    IN  IF encoder.kind = "raised" THEN encoder
        ELSE [kind |-> "model", config |-> config, encoder |-> encoder]

\* x if x is not None else default
OrDefault(x, default) == IF x = "None" THEN default ELSE x = "True"

\* SegFormerModel.forward with encoder_outputs=None
ModelForward(m, pixel_values, output_attentions, output_hidden_states, return_dict) ==
    EncoderForward(m.encoder, pixel_values,
                   OrDefault(output_attentions, m.config.output_attentions),
                   OrDefault(output_hidden_states, m.config.output_hidden_states),
                   OrDefault(return_dict, m.config.use_return_dict))

(***************************************************************************)
(* SegFormerDecoderLayer, SegFormerDecoder                                 *)
(***************************************************************************)
\* SegFormerDecoderLayer.__init__
SegFormerDecoderLayer(config, input_dim) ==
    [in_features |-> input_dim, out_features |-> config.decoder_hidden_size]

\* min(s) of a non-empty list
MinOf(s) == CHOOSE x \in Range(s) : \A y \in Range(s) : x <= y

\* lines 533-535: the layers for i in reversed(range(config.decoder_layers));
\* config.in_channels[i] past the end of the list raises IndexError
DecoderMlps(config) ==
    IF config.decoder_layers > Len(config.in_channels)
    THEN [raised |-> "IndexError", mlps |-> <<>>]
    ELSE [raised |-> "none",
          mlps |-> [k \in 1..config.decoder_layers |->
                       SegFormerDecoderLayer(config, config.in_channels[config.decoder_layers + 1 - k])]]

\* lines 537-540
DecoderBuilt(config, built) ==
    IF built.raised # "none" THEN [kind |-> "raised", raised |-> built.raised]
    ELSE [kind |-> "decoder",
          config |-> config,
          linear_c |-> built.mlps,
          linear_fuse |-> [in_channels |-> config.decoder_hidden_size * 4,
                           out_channels |-> config.decoder_hidden_size,
                           kernel_size |-> 1],
          batch_norm |-> config.decoder_hidden_size]

\* SegFormerDecoder.__init__; min() of an empty list raises ValueError
SegFormerDecoder(config) ==
    IF Len(config.feature_strides) # Len(config.in_channels)
    THEN [kind |-> "raised", raised |-> "AssertionError"]
    ELSE IF config.feature_strides = <<>>
    THEN [kind |-> "raised", raised |-> "ValueError"]
    ELSE IF MinOf(config.feature_strides) # config.feature_strides[1]
    THEN [kind |-> "raised", raised |-> "AssertionError"]
    ELSE DecoderBuilt(config, DecoderMlps(config))

\* SegFormerDecoder.forward: line 570 reads self.layers, an attribute
\* __init__ never sets; with it, hidden_states would be read unbound
DecoderForward(m, features, output_hidden_states, return_dict) ==
    [raised |-> IF "layers" \in DOMAIN m THEN "NameError" ELSE "AttributeError",
     type |-> "none",
     last_hidden_state |-> <<>>,
     output_hidden_states |-> OrDefault(output_hidden_states, m.config.output_hidden_states),
     return_dict |-> OrDefault(return_dict, m.config.use_return_dict)]

\* encoder_outputs as a caller supplies it: None, a tuple of elements, or a
\* BaseModelOutput.  An element is a name; the element None is "None".
NoOutputs == [type |-> "None"]
TupleOutputs(items) == [type |-> "tuple", items |-> items]
BaseModelOutput(last_hidden_state, hidden_states, attentions) ==
    [type |-> "BaseModelOutput", last_hidden_state |-> last_hidden_state,
     hidden_states |-> hidden_states, attentions |-> attentions]

\* lines 643-647 with hidden_states and attentions always None
WrapLastHiddenStateOnly(encoder_outputs) ==
    BaseModelOutput(encoder_outputs.items[1], "None", "None")

\* lines 643-647: BaseModelOutput(encoder_outputs[0], [1] if len > 1, [2] if len > 2)
WrapOutputs(encoder_outputs) ==
    BaseModelOutput(encoder_outputs.items[1],
                    IF Len(encoder_outputs.items) > 1 THEN encoder_outputs.items[2] ELSE "None",
                    IF Len(encoder_outputs.items) > 2 THEN encoder_outputs.items[3] ELSE "None")

\* lines 641-647: the branch taken for encoder_outputs that is not None;
\* encoder_outputs[0] of an empty tuple raises IndexError
GivenOutputs(encoder_outputs, return_dict) ==
    IF return_dict /\ encoder_outputs.type # "BaseModelOutput"
    THEN IF encoder_outputs.items = <<>>
         THEN [raised |-> "IndexError", encoder_runs |-> 0, encoder_input |-> <<>>,
               returned |-> NoOutputs]
         ELSE [raised |-> "none", encoder_runs |-> 0, encoder_input |-> <<>>,
               returned |-> WrapOutputs(encoder_outputs)]
    ELSE [raised |-> "none", encoder_runs |-> 0, encoder_input |-> <<>>,
          returned |-> encoder_outputs]

\* lines 634-640: the encoder is run on pixel_values
RunEncoder(encoded, pixel_values) ==
    [raised |-> encoded.raised, encoder_runs |-> 1, encoder_input |-> pixel_values,
     returned |-> encoded]

\* SegFormerModel.forward
ModelForwardGiven(m, pixel_values, encoder_outputs, output_attentions, output_hidden_states, return_dict) ==
    IF encoder_outputs = NoOutputs
    THEN RunEncoder(ModelForward(m, pixel_values, output_attentions, output_hidden_states,
                                 return_dict), pixel_values)
    ELSE GivenOutputs(encoder_outputs, OrDefault(return_dict, m.config.use_return_dict))

(***************************************************************************)
(* The modules of the model, built and called on their own.                *)
(***************************************************************************)
NewPatchEmbeddings ==
    /\ module = NoModule
    /\ call = NoCall
    /\ \E patch_size \in 1..MaxPatch, stride \in 1..MaxStride,
          num_channels \in 1..MaxChannels, hidden_size \in 1..MaxHiddenSize :
        module' = SegFormerOverlapPatchEmbeddings(MaxSide, patch_size, stride, num_channels, hidden_size)
    /\ UNCHANGED <<convert_vars, call>>

CallPatchEmbeddingsForward ==
    /\ module.kind = "patch_embeddings"
    /\ call = NoCall
    /\ \E b \in 1..MaxBatch, c \in 1..MaxChannels, h \in 1..MaxSide, w \in 1..MaxSide :
        call' = [fn |-> "SegFormerOverlapPatchEmbeddings.forward",
                 pixel_values |-> <<b, c, h, w>>,
                 result |-> PatchEmbeddingsForward(module, <<b, c, h, w>>)]
    /\ UNCHANGED <<convert_vars, module>>

NewSelfAttention ==
    /\ module = NoModule
    /\ call = NoCall
    /\ \E hidden_size \in 1..MaxHiddenSize, heads \in 1..MaxHeads, sr_ratio \in 1..MaxSr :
        LET m == SegFormerEfficientSelfAttention(hidden_size, heads, sr_ratio)
        IN  /\ module' = m
            /\ call' = [fn |-> "SegFormerEfficientSelfAttention",
                        hidden_size |-> hidden_size, num_attention_heads |-> heads,
                        sr_ratio |-> sr_ratio,
                        raised |-> IF m.kind = "raised" THEN m.raised ELSE "none"]
    /\ UNCHANGED convert_vars

CallSelfAttentionForward ==
    /\ module.kind = "self_attention"
    /\ call.fn = "SegFormerEfficientSelfAttention"
    /\ \E b \in 1..MaxBatch, h \in 1..MaxSide, w \in 1..MaxSide,
          head_mask \in {"None", "mask"}, output_attentions \in {"True", "False"} :
        call' = [fn |-> "SegFormerEfficientSelfAttention.forward",
                 hidden_states |-> <<b, h * w, module.hidden_size>>,
                 height |-> h, width |-> w,
                 head_mask |-> head_mask, output_attentions |-> output_attentions,
                 result |-> SelfAttentionForward(module, <<b, h * w, module.hidden_size>>, h, w,
                                                 "None", head_mask, output_attentions)]
    /\ UNCHANGED <<convert_vars, module>>

NewAttention ==
    /\ module = NoModule
    /\ call = NoCall
    /\ \E hidden_size \in 1..MaxHiddenSize, heads \in 1..MaxHeads, sr_ratio \in 1..MaxSr :
        LET m == SegFormerAttention(hidden_size, heads, sr_ratio)
        IN  /\ module' = m
            /\ call' = [fn |-> "SegFormerAttention",
                        hidden_size |-> hidden_size, num_attention_heads |-> heads,
                        sr_ratio |-> sr_ratio,
                        raised |-> IF m.kind = "raised" THEN m.raised ELSE "none"]
    /\ UNCHANGED convert_vars

CallAttentionForward ==
    /\ module.kind = "attention"
    /\ call.fn = "SegFormerAttention"
    /\ \E b \in 1..MaxBatch, h \in 1..MaxSide, w \in 1..MaxSide,
          head_mask \in {"None", "mask"}, output_attentions \in {"True", "False"} :
        call' = [fn |-> "SegFormerAttention.forward",
                 hidden_states |-> <<b, h * w, module.self.hidden_size>>,
                 height |-> h, width |-> w,
                 head_mask |-> head_mask, output_attentions |-> output_attentions,
                 result |-> AttentionForward(module, <<b, h * w, module.self.hidden_size>>, h, w,
                                             head_mask, output_attentions)]
    /\ UNCHANGED <<convert_vars, module>>

\* a list of n entries: first for stage 0, rest for the later stages
Pattern(n, first, rest) == [i \in 1..n |-> IF i = 1 THEN first ELSE rest]

\* the configurations a model is built from; the three output flags hold the
\* defaults of the configuration base class
Config(n, image_size, patch_sizes, strides, sr_ratios, hidden_sizes, heads, depths, rate) ==
    [num_encoder_blocks |-> n,
     image_size |-> image_size,
     num_channels |-> MaxChannels,
     downsampling_rates |-> [i \in 1..n |-> ProductTo(strides, i - 1)],
     patch_sizes |-> patch_sizes,
     strides |-> strides,
     sr_ratios |-> sr_ratios,
     hidden_sizes |-> hidden_sizes,
     encoder_attention_heads |-> heads,
     mlp_ratio |-> [i \in 1..n |-> 4],
     depths |-> depths,
     drop_path_rate |-> rate,
     output_attentions |-> FALSE,
     output_hidden_states |-> FALSE,
     use_return_dict |-> TRUE]

\* configurations that differ in their spatial parameters: the image size,
\* one patch size and one sr_ratio for all stages, the stride of the first
\* stage and the stride of the others
SpatialConfigs ==
    {Config(MaxBlocks, image_size, Pattern(MaxBlocks, p, p), Pattern(MaxBlocks, s0, s1),
            Pattern(MaxBlocks, r, r), [i \in 1..MaxBlocks |-> i + 1],
            Pattern(MaxBlocks, 1, 1), Pattern(MaxBlocks, MaxDepth, MaxDepth), Rat(0, ProbDen)) :
        image_size \in (MaxImage - 4)..MaxImage, p \in 1..MaxPatch,
        s0 \in 1..MaxStride, s1 \in 1..MaxStride, r \in 1..MaxSr}

\* configurations that differ in their widths, head counts and depths
WidthConfigs ==
    {Config(n, MaxImage, Pattern(n, 3, 3), Pattern(n, 1, 1), Pattern(n, 1, 1),
            [i \in 1..n |-> c * i], Pattern(n, a, a), Pattern(n, d0, d1),
            Rat(ProbDen - 1, ProbDen)) :
        n \in 1..MaxBlocks, c \in 1..MaxHiddenSize, a \in 1..MaxHeads,
        d0 \in 0..MaxDepth, d1 \in 0..MaxDepth}

SegFormerConfigs == SpatialConfigs \cup WidthConfigs

NewModel ==
    /\ module = NoModule
    /\ call = NoCall
    /\ \E config \in SegFormerConfigs :
        LET m == SegFormerModel(config)
        IN  /\ module' = m
            /\ call' = [fn |-> "SegFormerModel", config |-> config,
                        raised |-> IF m.kind = "raised" THEN m.raised ELSE "none"]
    /\ UNCHANGED convert_vars

Opt == {"None", "True", "False"}

\* the call record keeps the flags as resolved against the configuration
CallModelForward ==
    /\ module.kind = "model"
    /\ call.fn = "SegFormerModel"
    /\ \E b \in {1, MaxBatch}, output_attentions \in Opt, output_hidden_states \in Opt,
          return_dict \in Opt :
        LET pixel_values == <<b, module.config.num_channels,
                              module.config.image_size, module.config.image_size>>
        IN  call' = [fn |-> "SegFormerModel.forward",
                     pixel_values |-> pixel_values,
                     output_attentions |-> OrDefault(output_attentions, module.config.output_attentions),
                     output_hidden_states |->
                         OrDefault(output_hidden_states, module.config.output_hidden_states),
                     return_dict |-> OrDefault(return_dict, module.config.use_return_dict),
                     result |-> ModelForward(module, pixel_values, output_attentions,
                                             output_hidden_states, return_dict)]
    /\ UNCHANGED <<convert_vars, module>>

\* the encoder_outputs a call supplies
Elements == {"a", "b"}
Tuples(n) == UNION {[1..k -> Elements] : k \in 0..n}
SuppliedOutputs ==
    {NoOutputs}
      \cup {TupleOutputs(t) : t \in Tuples(MaxTupleLen)}
      \cup {BaseModelOutput(l, h, a) : l \in Elements, h \in {"None", "a"}, a \in {"None", "b"}}

CallModelForwardGiven ==
    /\ module.kind = "model"
    /\ call.fn = "SegFormerModel"
    /\ \E encoder_outputs \in SuppliedOutputs, return_dict \in Opt :
        LET pixel_values == <<1, module.config.num_channels,
                              module.config.image_size, module.config.image_size>>
        IN  call' = [fn |-> "SegFormerModel.forward(encoder_outputs)",
                     pixel_values |-> pixel_values,
                     encoder_outputs |-> encoder_outputs,
                     return_dict |-> OrDefault(return_dict, module.config.use_return_dict),
                     result |-> ModelForwardGiven(module, pixel_values, encoder_outputs,
                                                  "None", "None", return_dict)]
    /\ UNCHANGED <<convert_vars, module>>

\* the decoder configurations: the strides double from first, or start
\* above the rest of the list
DecoderConfigs ==
    {[feature_strides |-> [i \in 1..n |-> IF i = 1 THEN first ELSE 2 * i],
      in_channels |-> [i \in 1..k |-> i],
      decoder_layers |-> layers,
      decoder_hidden_size |-> hidden,
      output_hidden_states |-> FALSE,
      use_return_dict |-> TRUE] :
        n \in 0..MaxBlocks, k \in 0..MaxBlocks, layers \in 1..MaxBlocks,
        first \in {1, 2 * MaxBlocks + 1}, hidden \in {1, MaxHiddenSize}}

NewDecoder ==
    /\ module = NoModule
    /\ call = NoCall
    /\ \E config \in DecoderConfigs :
        LET m == SegFormerDecoder(config)
        IN  /\ module' = m
            /\ call' = [fn |-> "SegFormerDecoder", config |-> config,
                        raised |-> IF m.kind = "raised" THEN m.raised ELSE "none"]
    /\ UNCHANGED convert_vars

\* the features are those of an encoder whose stage i has in_channels[i]
\* channels and a side halved at every stage
CallDecoderForward ==
    /\ module.kind = "decoder"
    /\ call.fn = "SegFormerDecoder"
    /\ \E output_hidden_states \in Opt, return_dict \in Opt :
        LET features == [i \in 1..Len(module.config.in_channels) |->
                            <<1, module.config.in_channels[i],
                              MaxImage \div (2 ^ i), MaxImage \div (2 ^ i)>>]
        IN  call' = [fn |-> "SegFormerDecoder.forward", features |-> features,
                     result |-> DecoderForward(module, features, output_hidden_states, return_dict)]
    /\ UNCHANGED <<convert_vars, module>>

\* prune_heads called on an attention module, any number of times
CallPruneHeads ==
    /\ module.kind = "attention"
    /\ call.fn \in {"SegFormerAttention", "SegFormerAttention.prune_heads"}
    /\ \E heads \in SUBSET (0..(MaxHeads - 1)) :
        LET r == prune_heads(module, heads)
        IN  /\ module' = r.module
            /\ call' = [fn |-> "SegFormerAttention.prune_heads", heads |-> heads,
                        before |-> module, raised |-> r.raised]
    /\ UNCHANGED convert_vars

InitSeg == InitFn

NextSeg ==
    \/ NewPatchEmbeddings
    \/ CallPatchEmbeddingsForward
    \/ NewSelfAttention
    \/ CallSelfAttentionForward
    \/ CallDropPath
    \/ NewDropPath
    \/ CallDropPathForward
    \/ NewModel
    \/ CallModelForward
    \/ NewAttention
    \/ CallAttentionForward
    \/ CallModelForwardGiven
    \/ CallPruneHeads
    \/ NewDecoder
    \/ CallDecoderForward

SpecSeg == InitSeg /\ [][NextSeg]_vars

(***************************************************************************)
(* utils/ade20k_classes.py: two dict literals keyed by class id.  A dict   *)
(* literal is its items in source order; an item given twice keeps the     *)
(* last value.  A colour is the list of its three channels.                *)
(***************************************************************************)
MaxKey == 150         \* the keys looked up are -1 .. MaxKey

id2label_items ==
    <<
       <<0, "wall">>, <<1, "building">>, <<2, "sky">>, <<3, "floor">>,
       <<4, "tree">>, <<5, "ceiling">>, <<6, "road">>, <<7, "bed ">>,
       <<8, "windowpane">>, <<9, "grass">>, <<10, "cabinet">>, <<11, "sidewalk">>,
       <<12, "person">>, <<13, "earth">>, <<14, "door">>, <<15, "table">>,
       <<16, "mountain">>, <<17, "plant">>, <<18, "curtain">>, <<19, "chair">>,
       <<20, "car">>, <<21, "water">>, <<22, "painting">>, <<23, "sofa">>,
       <<24, "shelf">>, <<25, "house">>, <<26, "sea">>, <<27, "mirror">>,
       <<28, "rug">>, <<29, "field">>, <<30, "armchair">>, <<31, "seat">>,
       <<32, "fence">>, <<33, "desk">>, <<34, "rock">>, <<35, "wardrobe">>,
       <<36, "lamp">>, <<37, "bathtub">>, <<38, "railing">>, <<39, "cushion">>,
       <<40, "base">>, <<41, "box">>, <<42, "column">>, <<43, "signboard">>,
       <<44, "chest of drawers">>, <<45, "counter">>, <<46, "sand">>, <<47, "sink">>,
       <<48, "skyscraper">>, <<49, "fireplace">>, <<50, "refrigerator">>, <<51, "grandstand">>,
       <<52, "path">>, <<53, "stairs">>, <<54, "runway">>, <<55, "case">>,
       <<56, "pool table">>, <<57, "pillow">>, <<58, "screen door">>, <<59, "stairway">>,
       <<60, "river">>, <<61, "bridge">>, <<62, "bookcase">>, <<63, "blind">>,
       <<64, "coffee table">>, <<65, "toilet">>, <<66, "flower">>, <<67, "book">>,
       <<68, "hill">>, <<69, "bench">>, <<70, "countertop">>, <<71, "stove">>,
       <<72, "palm">>, <<73, "kitchen island">>, <<74, "computer">>, <<75, "swivel chair">>,
       <<76, "boat">>, <<77, "bar">>, <<78, "arcade machine">>, <<79, "hovel">>,
       <<80, "bus">>, <<81, "towel">>, <<82, "light">>, <<83, "truck">>,
       <<84, "tower">>, <<85, "chandelier">>, <<86, "awning">>, <<87, "streetlight">>,
       <<88, "booth">>, <<89, "television receiver">>, <<90, "airplane">>, <<91, "dirt track">>,
       <<92, "apparel">>, <<93, "pole">>, <<94, "land">>, <<95, "bannister">>,
       <<96, "escalator">>, <<97, "ottoman">>, <<98, "bottle">>, <<99, "buffet">>,
       <<100, "poster">>, <<101, "stage">>, <<102, "van">>, <<103, "ship">>,
       <<104, "fountain">>, <<105, "conveyer belt">>, <<106, "canopy">>, <<107, "washer">>,
       <<108, "plaything">>, <<109, "swimming pool">>, <<110, "stool">>, <<111, "barrel">>,
       <<112, "basket">>, <<113, "waterfall">>, <<114, "tent">>, <<115, "bag">>,
       <<116, "minibike">>, <<117, "cradle">>, <<118, "oven">>, <<119, "ball">>,
       <<120, "food">>, <<121, "step">>, <<122, "tank">>, <<123, "trade name">>,
       <<124, "microwave">>, <<125, "pot">>, <<126, "animal">>, <<127, "bicycle">>,
       <<128, "lake">>, <<129, "dishwasher">>, <<130, "screen">>, <<131, "blanket">>,
       <<132, "sculpture">>, <<133, "hood">>, <<134, "sconce">>, <<135, "vase">>,
       <<136, "traffic light">>, <<137, "tray">>, <<138, "ashcan">>, <<139, "fan">>,
       <<140, "pier">>, <<141, "crt screen">>, <<142, "plate">>, <<143, "monitor">>,
       <<144, "bulletin board">>, <<145, "shower">>, <<146, "radiator">>, <<147, "glass">>,
       <<148, "clock">>, <<149, "flag">>
    >>

id2color_items ==
    <<
       <<0, <<120, 120, 120>>>>, <<1, <<180, 120, 120>>>>, <<2, <<6, 230, 230>>>>, <<3, <<80, 50, 50>>>>,
       <<4, <<4, 200, 3>>>>, <<5, <<120, 120, 80>>>>, <<6, <<140, 140, 140>>>>, <<7, <<204, 5, 255>>>>,
       <<8, <<230, 230, 230>>>>, <<9, <<4, 250, 7>>>>, <<10, <<224, 5, 255>>>>, <<11, <<235, 255, 7>>>>,
       <<12, <<150, 5, 61>>>>, <<13, <<120, 120, 70>>>>, <<14, <<8, 255, 51>>>>, <<15, <<255, 6, 82>>>>,
       <<16, <<143, 255, 140>>>>, <<17, <<204, 255, 4>>>>, <<18, <<255, 51, 7>>>>, <<19, <<204, 70, 3>>>>,
       <<20, <<0, 102, 200>>>>, <<21, <<61, 230, 250>>>>, <<22, <<255, 6, 51>>>>, <<23, <<11, 102, 255>>>>,
       <<24, <<255, 7, 71>>>>, <<25, <<255, 9, 224>>>>, <<26, <<9, 7, 230>>>>, <<27, <<220, 220, 220>>>>,
       <<28, <<255, 9, 92>>>>, <<29, <<112, 9, 255>>>>, <<30, <<8, 255, 214>>>>, <<31, <<7, 255, 224>>>>,
       <<32, <<255, 184, 6>>>>, <<33, <<10, 255, 71>>>>, <<34, <<255, 41, 10>>>>, <<35, <<7, 255, 255>>>>,
       <<36, <<224, 255, 8>>>>, <<37, <<102, 8, 255>>>>, <<38, <<255, 61, 6>>>>, <<39, <<255, 194, 7>>>>,
       <<40, <<255, 122, 8>>>>, <<41, <<0, 255, 20>>>>, <<42, <<255, 8, 41>>>>, <<43, <<255, 5, 153>>>>,
       <<44, <<6, 51, 255>>>>, <<45, <<235, 12, 255>>>>, <<46, <<160, 150, 20>>>>, <<47, <<0, 163, 255>>>>,
       <<48, <<140, 140, 140>>>>, <<49, <<250, 10, 15>>>>, <<50, <<20, 255, 0>>>>, <<51, <<31, 255, 0>>>>,
       <<52, <<255, 31, 0>>>>, <<53, <<255, 224, 0>>>>, <<54, <<153, 255, 0>>>>, <<55, <<0, 0, 255>>>>,
       <<56, <<255, 71, 0>>>>, <<57, <<0, 235, 255>>>>, <<58, <<0, 173, 255>>>>, <<59, <<31, 0, 255>>>>,
       <<60, <<11, 200, 200>>>>, <<61, <<255, 82, 0>>>>, <<62, <<0, 255, 245>>>>, <<63, <<0, 61, 255>>>>,
       <<64, <<0, 255, 112>>>>, <<65, <<0, 255, 133>>>>, <<66, <<255, 0, 0>>>>, <<67, <<255, 163, 0>>>>,
       <<68, <<255, 102, 0>>>>, <<69, <<194, 255, 0>>>>, <<70, <<0, 143, 255>>>>, <<71, <<51, 255, 0>>>>,
       <<72, <<0, 82, 255>>>>, <<73, <<0, 255, 41>>>>, <<74, <<0, 255, 173>>>>, <<75, <<10, 0, 255>>>>,
       <<76, <<173, 255, 0>>>>, <<77, <<0, 255, 153>>>>, <<78, <<255, 92, 0>>>>, <<79, <<255, 0, 255>>>>,
       <<80, <<255, 0, 245>>>>, <<81, <<255, 0, 102>>>>, <<82, <<255, 173, 0>>>>, <<83, <<255, 0, 20>>>>,
       <<84, <<255, 184, 184>>>>, <<85, <<0, 31, 255>>>>, <<86, <<0, 255, 61>>>>, <<87, <<0, 71, 255>>>>,
       <<88, <<255, 0, 204>>>>, <<89, <<0, 255, 194>>>>, <<90, <<0, 255, 82>>>>, <<91, <<0, 10, 255>>>>,
       <<92, <<0, 112, 255>>>>, <<93, <<51, 0, 255>>>>, <<94, <<0, 194, 255>>>>, <<95, <<0, 122, 255>>>>,
       <<96, <<0, 255, 163>>>>, <<97, <<255, 153, 0>>>>, <<98, <<0, 255, 10>>>>, <<99, <<255, 112, 0>>>>,
       <<100, <<143, 255, 0>>>>, <<101, <<82, 0, 255>>>>, <<102, <<163, 255, 0>>>>, <<103, <<255, 235, 0>>>>,
       <<104, <<8, 184, 170>>>>, <<105, <<133, 0, 255>>>>, <<106, <<0, 255, 92>>>>, <<107, <<184, 0, 255>>>>,
       <<108, <<255, 0, 31>>>>, <<109, <<0, 184, 255>>>>, <<110, <<0, 214, 255>>>>, <<111, <<255, 0, 112>>>>,
       <<112, <<92, 255, 0>>>>, <<113, <<0, 224, 255>>>>, <<114, <<112, 224, 255>>>>, <<115, <<70, 184, 160>>>>,
       <<116, <<163, 0, 255>>>>, <<117, <<153, 0, 255>>>>, <<118, <<71, 255, 0>>>>, <<119, <<255, 0, 163>>>>,
       <<120, <<255, 204, 0>>>>, <<121, <<255, 0, 143>>>>, <<122, <<0, 255, 235>>>>, <<123, <<133, 255, 0>>>>,
       <<124, <<255, 0, 235>>>>, <<125, <<245, 0, 255>>>>, <<126, <<255, 0, 122>>>>, <<127, <<255, 245, 0>>>>,
       <<128, <<10, 190, 212>>>>, <<129, <<214, 255, 0>>>>, <<130, <<0, 204, 255>>>>, <<131, <<20, 0, 255>>>>,
       <<132, <<255, 255, 0>>>>, <<133, <<0, 153, 255>>>>, <<134, <<0, 41, 255>>>>, <<135, <<0, 255, 204>>>>,
       <<136, <<41, 0, 255>>>>, <<137, <<41, 255, 0>>>>, <<138, <<173, 0, 255>>>>, <<139, <<0, 245, 255>>>>,
       <<140, <<71, 0, 255>>>>, <<141, <<122, 0, 255>>>>, <<142, <<0, 255, 184>>>>, <<143, <<0, 92, 255>>>>,
       <<144, <<184, 255, 0>>>>, <<145, <<0, 133, 255>>>>, <<146, <<255, 214, 0>>>>, <<147, <<25, 194, 194>>>>,
       <<148, <<102, 255, 0>>>>, <<149, <<92, 0, 255>>>>
    >>

LastItem(items, k) ==
    CHOOSE n \in DOMAIN items :
        items[n][1] = k /\ \A m \in DOMAIN items : m > n => items[m][1] # k

DictLiteral(items) ==
    [k \in {items[n][1] : n \in DOMAIN items} |-> items[LastItem(items, k)][2]]

id2colorWithoutLast == DictLiteral(SubSeq(id2color_items, 1, Len(id2color_items) - 1))

id2label == DictLiteral(id2label_items)
id2color == DictLiteral(id2color_items)

\* d[key]: the value, or KeyError
GetItem(d, key) ==
    IF key \in DOMAIN d
        THEN [raised |-> "none", value |-> d[key]]
        ELSE [raised |-> "KeyError", value |-> None]

LookUpLabel ==
    /\ call = NoCall
    /\ UNCHANGED <<convert_vars, module>>
    /\ \E key \in (0 - 1)..MaxKey :
        LET r == GetItem(id2label, key)
        IN  call' = [fn |-> "id2label", key |-> key, raised |-> r.raised, value |-> r.value]

LookUpColor ==
    /\ call = NoCall
    /\ UNCHANGED <<convert_vars, module>>
    /\ \E key \in (0 - 1)..MaxKey :
        LET r == GetItem(id2color, key)
        IN  call' = [fn |-> "id2color", key |-> key, raised |-> r.raised, value |-> r.value]

InitAde == InitFn

NextAde ==
    \/ LookUpLabel
    \/ LookUpColor

SpecAde == InitAde /\ [][NextAde]_vars

(***************************************************************************)
(* Properties of the SegFormer modules, checked under SpecSeg.             *)
(***************************************************************************)
CeilDiv(a, b) == (a + b - 1) \div b

\* the output size of the patch convolution along one dimension
PatchOut(n, patch_size, stride) ==
    IF patch_size % 2 = 1 THEN CeilDiv(n, stride) ELSE (n \div stride) + 1

PatchForwardCalled ==
    /\ call.fn = "SegFormerOverlapPatchEmbeddings.forward"
    /\ call.pixel_values[2] = module.in_channels

\* C2 as stated: the returned height and width are H // stride and W // stride
C2_FloorOfStride ==
    PatchForwardCalled =>
        /\ Ok(call.result)
        /\ call.result.height = call.pixel_values[3] \div module.stride
        /\ call.result.width = call.pixel_values[4] \div module.stride
        /\ call.result.x = <<call.pixel_values[1], call.result.height * call.result.width,
                             module.out_channels>>

\* C2, amended: on an input with the configured number of channels the patch
\* embeddings return height = ceil(H / stride) for an odd patch size and
\* H // stride + 1 for an even one (likewise the width), which is H // stride
\* when the patch size is odd and the stride divides H; the token sequence
\* has length height * width and hidden_size channels
C2_PatchEmbeddingsShape ==
    PatchForwardCalled =>
        LET H == call.pixel_values[3]
            W == call.pixel_values[4]
            r == call.result
        IN  /\ Ok(r)
            /\ r.height = PatchOut(H, module.kernel_size, module.stride)
            /\ r.width = PatchOut(W, module.kernel_size, module.stride)
            /\ (module.kernel_size % 2 = 1 /\ H % module.stride = 0 => r.height = H \div module.stride)
            /\ (module.kernel_size % 2 = 1 /\ W % module.stride = 0 => r.width = W \div module.stride)
            /\ r.x = <<call.pixel_values[1], r.height * r.width, module.out_channels>>

C2_Witness ==
    /\ PatchForwardCalled
    /\ module.kernel_size = 3
    /\ module.stride = 2
    /\ call.pixel_values[3] = 6
    /\ call.pixel_values[4] = 4
    /\ call.result.x = <<call.pixel_values[1], 6, module.out_channels>>

SelfAttentionForwardCalled == call.fn = "SegFormerEfficientSelfAttention.forward"

\* the spatial-reduction convolution accepts a height x width map
ReductionFits == module.sr_ratio = 1 \/ (call.height >= module.sr_ratio /\ call.width >= module.sr_ratio)

\* C3 as stated: for every sr_ratio the context tensor has the shape of the input
C3_AnyReductionRatio ==
    SelfAttentionForwardCalled =>
        /\ Ok(call.result)
        /\ call.result.outputs[1] = call.hidden_states

\* C3, amended: when sr_ratio is 1 or at most the height and the width, the
\* context tensor has the shape (batch, seq_len, hidden_size) of the input and
\* only the key/value sequence is shortened, to (height // sr_ratio) *
\* (width // sr_ratio); when sr_ratio exceeds the height or the width the
\* forward pass raises
C3_ContextShape ==
    SelfAttentionForwardCalled =>
        /\ ReductionFits =>
                /\ Ok(call.result)
                /\ call.result.outputs[1] = call.hidden_states
                /\ call.output_attentions = "True" =>
                        call.result.outputs[2] =
                            <<call.hidden_states[1], module.num_attention_heads,
                              call.height * call.width,
                              (call.height \div module.sr_ratio) * (call.width \div module.sr_ratio)>>
        /\ ~ReductionFits => call.result.raised = "RuntimeError"

C3_Witness ==
    /\ SelfAttentionForwardCalled
    /\ module.sr_ratio = 2
    /\ call.height = 5
    /\ call.width = 4
    /\ call.output_attentions = "True"
    /\ call.result.outputs[1] = <<call.hidden_states[1], 20, module.hidden_size>>
    /\ call.result.outputs[2][4] = 4

DropPathCalled == call.fn \in {"drop_path", "DropPath.forward"}

\* C4: drop_path and DropPath.forward return x unchanged when drop_prob is 0
\* or training is false, drawing no random value and applying no scaling
C4_DropPathIdentity ==
    DropPathCalled /\ (call.drop_prob[1] = 0 \/ ~call.training) =>
        /\ call.result.output = call.x
        /\ ~call.result.rand_drawn
        /\ ~call.result.divided

C4_Witness ==
    /\ call.fn = "DropPath.forward"
    /\ ~call.training
    /\ call.drop_prob[1] > 0
    /\ \E b \in DOMAIN call.x : \E e \in DOMAIN call.x[b] : call.x[b][e][1] # 0
    /\ call.result.output = call.x
    /\ ~call.result.rand_drawn

\* a stage that has layers and a hidden size its head count does not divide
IndivisibleStage(config) ==
    \E i \in 1..config.num_encoder_blocks :
        /\ config.depths[i] >= 1
        /\ config.hidden_sizes[i] % config.encoder_attention_heads[i] # 0

\* C5: constructing the self-attention, directly or as a layer of an encoder
\* stage, with a hidden size the head count does not divide raises ValueError
\* and no forward pass follows; otherwise construction succeeds with
\* num_attention_heads * attention_head_size = all_head_size = hidden_size
C5_HeadsDivideHiddenSize ==
    /\ call.fn = "SegFormerEfficientSelfAttention" =>
            IF call.hidden_size % call.num_attention_heads # 0
            THEN call.raised = "ValueError" /\ module.kind = "raised"
            ELSE /\ call.raised = "none"
                 /\ module.kind = "self_attention"
                 /\ module.num_attention_heads * module.attention_head_size = module.all_head_size
                 /\ module.all_head_size = call.hidden_size
    /\ call.fn = "SegFormerModel" =>
            IF IndivisibleStage(call.config)
            THEN call.raised = "ValueError" /\ module.kind = "raised"
            ELSE call.raised = "none" /\ module.kind = "model"
    /\ call.fn = "SegFormerEfficientSelfAttention.forward" =>
            module.hidden_size % module.num_attention_heads = 0
    /\ call.fn = "SegFormerModel.forward" => ~IndivisibleStage(module.config)

C5_Witness ==
    /\ call.fn = "SegFormerEfficientSelfAttention"
    /\ call.hidden_size = 3
    /\ call.num_attention_heads = 2
    /\ call.raised = "ValueError"
    /\ module.kind = "raised"

\* a forward pass of a model of 4 stages of 2 layers each
FourStagesForwardCalled ==
    /\ call.fn = "SegFormerModel.forward"
    /\ module.config.num_encoder_blocks = 4
    /\ module.config.depths = <<2, 2, 2, 2>>

\* (batch, hidden_sizes[3], image_size / product of the strides, the same)
ExpectedFinalShape ==
    <<call.pixel_values[1], module.config.hidden_sizes[4],
      module.config.image_size \div ProductTo(module.config.strides, 4),
      module.config.image_size \div ProductTo(module.config.strides, 4)>>

\* C6 as stated: every such forward pass completes with the expected shape
C6_AnyFourStageConfig ==
    FourStagesForwardCalled =>
        /\ Ok(call.result)
        /\ call.result.last_hidden_state = ExpectedFinalShape

\* the patch sizes are odd, the product of the strides divides the image
\* size, and each stage's sr_ratio is 1 or at most the side of its feature map
RegularConfig(config) ==
    /\ \A i \in 1..config.num_encoder_blocks : config.patch_sizes[i] % 2 = 1
    /\ config.image_size % ProductTo(config.strides, config.num_encoder_blocks) = 0
    /\ \A i \in 1..config.num_encoder_blocks :
            \/ config.sr_ratios[i] = 1
            \/ config.sr_ratios[i] <= config.image_size \div ProductTo(config.strides, i)

\* C6, amended: with 4 stages of depths [2,2,2,2], odd patch sizes, an image
\* size the product of the strides divides, and every sr_ratio 1 or at most
\* the side of its stage's feature map, SegFormerModel.forward completes and
\* the final hidden representation has shape (batch, hidden_sizes[3], h, w)
\* with h = w = image size / product of the four strides
C6_FinalShape ==
    FourStagesForwardCalled /\ RegularConfig(module.config) =>
        /\ Ok(call.result)
        /\ call.result.last_hidden_state = ExpectedFinalShape

C6_Witness ==
    /\ FourStagesForwardCalled
    /\ RegularConfig(module.config)
    /\ module.config.strides = <<2, 2, 2, 2>>
    /\ module.config.patch_sizes[1] = 3
    /\ call.pixel_values = <<2, module.config.num_channels, 16, 16>>
    /\ call.result.last_hidden_state = <<2, module.config.hidden_sizes[4], 1, 1>>

\* the number of layers of the model
TotalLayers(config) == SumTo(config.depths, config.num_encoder_blocks)

\* C7: a forward pass that completes returns the hidden states of all layers
\* when output_hidden_states is true and the attentions of all attention
\* layers when output_attentions is true; a requested output is never empty
\* and one not requested is None
C7_RequestedOutputsReturned ==
    call.fn = "SegFormerModel.forward" /\ Ok(call.result) /\ TotalLayers(module.config) >= 1 =>
        /\ IF call.output_hidden_states
           THEN /\ ~call.result.hidden_states.is_none
                /\ Len(call.result.hidden_states.items) >= TotalLayers(module.config)
           ELSE call.result.hidden_states.is_none
        /\ IF call.output_attentions
           THEN /\ ~call.result.attentions.is_none
                /\ Len(call.result.attentions.items) = TotalLayers(module.config)
           ELSE call.result.attentions.is_none

(***************************************************************************)
(* Properties of the converter.                                            *)
(***************************************************************************)
NoDuplicates(s) == \A m, n \in 1..Len(s) : m # n => s[m] # s[n]
Column(pairs, c) == [n \in 1..Len(pairs) |-> pairs[n][c]]

EncoderLayerParams == {"norm1", "attn.proj", "norm2", "mlp.fc1", "mlp.fc2"}
DecoderLayerParams ==
    {"self_attn.k_proj", "self_attn.q_proj", "self_attn.v_proj", "self_attn.out_proj",
     "self_attn_layer_norm",
     "encoder_attn.k_proj", "encoder_attn.q_proj", "encoder_attn.v_proj", "encoder_attn.out_proj",
     "encoder_attn_layer_norm", "fc1", "fc2", "final_layer_norm"}

\* the weight and the bias of every per-layer parameter of the original model
PerLayerSourceKeys(enc_layers, dec_layers) ==
    {EncBlock(i) \o "." \o q \o w :
        i \in 0..(enc_layers - 1), q \in EncoderLayerParams, w \in {".weight", ".bias"}}
      \cup {DecSrc(j) \o "." \o q \o w :
        j \in 0..(dec_layers - 1), q \in DecoderLayerParams, w \in {".weight", ".bias"}}

\* C1: the pairs create_rename_keys builds form a bijection: no source key
\* twice, no destination key twice, every per-layer source parameter mapped.
C1_RenameKeysBijective ==
    call.fn = "create_rename_keys" =>
        /\ NoDuplicates(Column(call.built, 1))
        /\ NoDuplicates(Column(call.built, 2))
        /\ PerLayerSourceKeys(call.enc_layers, call.dec_layers) \subseteq Range(Column(call.built, 1))

ConversionOrder ==
    <<"load", "rename", "split", "delete_head", "load_model", "assert",
      "save_model", "save_feature_extractor">>

Ended == pc \in {"done", "failed"}

\* the loaded checkpoint held every key the rename table names
CheckpointHadEveryKey ==
    /\ "load" \in Range(steps)
    /\ state_dict = [k \in CheckpointKeys(encoder_config, decoder_config) |->
                        CheckpointTensor(k, encoder_config)]

\* C8: the steps of a conversion happen in the order load, rename, split,
\* delete head keys, load into the model, assert, save model, save feature
\* extractor, each after the one before it: the steps done are always a prefix
\* of that order, and after a load of a checkpoint that holds every key the
\* renames are applied.
C8_StepsInOrder ==
    /\ IsPrefix(steps, ConversionOrder)
    /\ (Ended /\ CheckpointHadEveryKey) => "rename" \in Range(steps)

\* C9: a run whose logits shape differs from (1, 1000) ends with the
\* assertion failure and saves nothing; the saves happen only after the
\* assertion passed.
C9_ShapeMismatchAsserts ==
    /\ (Ended /\ CheckpointHadEveryKey /\ logits_shape # expected_shape) =>
            error = "AssertionError" /\ disk = {}
    /\ disk # {} => "assert" \in Range(steps)

\* C10: rename_key on an absent key raises KeyError and leaves the dict as it
\* was, and inside a conversion that error ends the run at the rename step:
\* a run on a checkpoint that lacks a key the table names ends with KeyError,
\* before the split, the model load and the saves.
C10_MissingKeyIsLookupError ==
    /\ (call.fn = "rename_key" /\ call.old \notin DOMAIN call.dct) =>
            call.raised = "KeyError" /\ call.after = call.dct
    /\ (Ended /\ "load" \in Range(steps)
          /\ \E p \in Range(BuiltRenameKeys(encoder_config.num_hidden_layers,
                                            decoder_config.num_hidden_layers)) :
                p[1] \notin DOMAIN state_dict /\ p[2] \notin DOMAIN state_dict) =>
            error = "KeyError" /\ steps = <<"load">>

\* C11: a run of convert_tr_ocr_checkpoint ends in one of three ways only:
\* completed with both saves done, failed with the lookup failure (KeyError)
\* of the rename step, or failed with the final shape assertion.
C11_OnlyLookupOrAssertionFailures ==
    Ended =>
        \/ pc = "done" /\ error = "none" /\ {"model", "feature_extractor"} \subseteq disk
        \/ pc = "failed" /\ error = "KeyError" /\ steps = <<"load">>
        \/ pc = "failed" /\ error = "AssertionError"

\* read_in_q_k_v was called on a dict that holds, for every encoder layer, the
\* fused weight with 3 * hidden_size rows
FusedWeightsGiven ==
    /\ call.fn = "read_in_q_k_v"
    /\ \A i \in 0..(call.config.num_hidden_layers - 1) :
            /\ FusedKey(i) \in DOMAIN call.dct
            /\ Rows(call.dct[FusedKey(i)]) = 3 * call.config.hidden_size

\* C12: for every encoder layer read_in_q_k_v stores three parts of the fused
\* weight, query = rows [0, h), key = rows [h, 2h), value = the last h rows:
\* h rows each, disjoint, covering every row, and in this order the fused matrix
C12_SplitsFusedWeight ==
    FusedWeightsGiven =>
        \A i \in 0..(call.config.num_hidden_layers - 1) :
            LET fused == call.dct[FusedKey(i)]
                h == call.config.hidden_size
            IN  \E q, k, v \in DOMAIN call.after :
                    /\ call.after[q] = [src |-> fused.src, lo |-> fused.lo, hi |-> fused.lo + h]
                    /\ call.after[k] = [src |-> fused.src, lo |-> fused.lo + h, hi |-> fused.lo + 2 * h]
                    /\ call.after[v] = [src |-> fused.src, lo |-> fused.hi - h, hi |-> fused.hi]
                    /\ call.after[q].hi = call.after[k].lo
                    /\ call.after[k].hi = call.after[v].lo

FusedKeys(enc_config) == {FusedKey(i) : i \in 0..(enc_config.num_hidden_layers - 1)}

\* C15: on a dict that holds the fused key of every encoder layer,
\* read_in_q_k_v completes, removes each fused key, adds exactly three keys
\* per layer and leaves every other entry as it was, so the dict grows by 2
\* entries per layer
C15_FusedKeysReplaced ==
    call.fn = "read_in_q_k_v" /\ FusedKeys(call.config) \subseteq DOMAIN call.dct =>
        /\ call.raised = "none"
        /\ FusedKeys(call.config) \cap DOMAIN call.after = {}
        /\ Cardinality(DOMAIN call.after \ DOMAIN call.dct) = 3 * call.config.num_hidden_layers
        /\ \A k \in (DOMAIN call.dct) \ FusedKeys(call.config) :
                k \in DOMAIN call.after /\ call.after[k] = call.dct[k]
        /\ Cardinality(DOMAIN call.after) =
                Cardinality(DOMAIN call.dct) + 2 * call.config.num_hidden_layers

\* the list create_rename_keys builds has 10 pairs per encoder layer, 6 for the
\* encoder embeddings, 26 per decoder layer and 4 for the decoder embeddings
BuiltCount ==
    call.fn = "create_rename_keys" =>
        Len(call.built) = 10 * call.enc_layers + 26 * call.dec_layers + 10

\* C14: create_rename_keys returns the list it builds, of
\* 10 * encoder layers + 26 * decoder layers + 10 pairs
C14_ReturnsBuiltList ==
    call.fn = "create_rename_keys" =>
        /\ ~call.returned.is_none
        /\ call.returned.items = call.built
        /\ Len(call.returned.items) = 10 * call.enc_layers + 26 * call.dec_layers + 10

\* C16: SegFormerAttention.forward hands head_mask and output_attentions to
\* the self-attention as such: with output_attentions true it returns
\* (attention_output, attention_probs), with output_attentions false
\* (attention_output,), and the probabilities are masked by head_mask only,
\* so not at all when head_mask is None
C16_FlagsReachSelfAttention ==
    call.fn = "SegFormerAttention.forward" /\ call.result.raised = "none" =>
        /\ Len(call.result.outputs) = (IF call.output_attentions = "True" THEN 2 ELSE 1)
        /\ call.result.masked = call.head_mask

ModelForwardGivenCalled == call.fn = "SegFormerModel.forward(encoder_outputs)"

ModelBuilt == call.fn = "SegFormerModel" /\ module.kind = "model"

RatLeq(a, b) == a[1] * b[2] <= b[1] * a[2]

\* the rate a layer's drop_path module was built with
LayerRate(layer) ==
    IF layer.drop_path.kind = "identity" THEN <<0, 1>> ELSE layer.drop_path.drop_prob

\* the rates and the dpr indices of the layers in stage-then-layer order
LayerRates ==
    Flatten([i \in 1..Len(module.encoder.block) |->
                [j \in 1..Len(module.encoder.block[i]) |-> LayerRate(module.encoder.block[i][j])]])
LayerIndices ==
    Flatten([i \in 1..Len(module.encoder.block) |->
                [j \in 1..Len(module.encoder.block[i]) |-> DprIndex(module.config, i, j)]])

IndicesInOrder ==
    LayerIndices = [k \in 1..SumTo(module.config.depths, Len(module.config.depths)) |-> k - 1]

RatesFromZero ==
    /\ \A k \in 1..(Len(LayerRates) - 1) : RatLeq(LayerRates[k], LayerRates[k + 1])
    /\ Len(LayerRates) >= 1 => LayerRates[1] = <<0, 1>>
    /\ \A i \in 1..Len(module.encoder.block) :
           SumTo(module.config.depths, i - 1) = 0 /\ module.config.depths[i] > 0 =>
               module.encoder.block[i][1].drop_path.kind = "identity"

\* C18 as stated: the layers in stage-then-layer order use the dpr indices
\* 0 .. sum(depths) - 1, and their rates rise from 0 at the first layer to
\* drop_path_rate at the last layer
C18_RatesReachDropPathRate ==
    ModelBuilt =>
        /\ IndicesInOrder
        /\ RatesFromZero
        /\ Len(LayerRates) >= 1 => LayerRates[Len(LayerRates)] = module.config.drop_path_rate

\* C18: the layers in stage-then-layer order use the dpr indices
\* 0 .. sum(depths) - 1, each once; their rates are non-decreasing from 0 at
\* the first layer, which gets an identity module, and reach drop_path_rate at
\* the last layer when the encoder has at least two layers
C18_DropPathRates ==
    ModelBuilt =>
        /\ IndicesInOrder
        /\ RatesFromZero
        /\ Len(LayerRates) >= 2 => LayerRates[Len(LayerRates)] = module.config.drop_path_rate

C18_Witness ==
    /\ ModelBuilt
    /\ module.config.depths = <<2, 1, 1>>
    /\ LayerRates = <<Rat(0, 1), Rat(1, 4), Rat(2, 4), Rat(3, 4)>>
    /\ LayerIndices = <<0, 1, 2, 3>>

\* sample b of the output is all zeros / is sample b of x divided by 1 - drop_prob
SampleDropped(b) == \A e \in DOMAIN call.x[b] : call.result.output[b][e] = <<0, 1>>
SampleKept(b) ==
    \A e \in DOMAIN call.x[b] :
        call.result.output[b][e] =
            RatDiv(call.x[b][e], Rat(call.drop_prob[2] - call.drop_prob[1], call.drop_prob[2]))

ModelForwardCalled == call.fn = "SegFormerModel.forward"

\* the stages of the forward pass that completed
CompletedStages == {i \in 1..Len(call.result.stages) : Ok(call.result.stages[i])}

\* (batch, h_i * w_i, hidden_sizes[i]) for stage i
StageHiddenShape(i) ==
    <<call.pixel_values[1],
      call.result.stages[i].height * call.result.stages[i].width,
      module.config.hidden_sizes[i]>>

\* every layer of stage i is entered and left with StageHiddenShape(i), and the
\* stage's feature map is (batch, hidden_sizes[i], h_i, w_i)
StageShapesHold(i) ==
    /\ call.result.stages[i].embedded = StageHiddenShape(i)
    /\ Len(call.result.stages[i].layer_outputs) = module.config.depths[i]
    /\ \A j \in 1..Len(call.result.stages[i].layer_outputs) :
           call.result.stages[i].layer_outputs[j] = StageHiddenShape(i)
    /\ call.result.stages[i].feature =
           <<call.pixel_values[1], module.config.hidden_sizes[i],
             call.result.stages[i].height, call.result.stages[i].width>>

\* stage i takes the channels of the stage before it, stage 0 num_channels
StageChannelsChain(i) ==
    module.encoder.patch_embeddings[i].in_channels =
        (IF i = 1 THEN module.config.num_channels ELSE module.config.hidden_sizes[i - 1])

ResolutionNotLarger(i) ==
    i > 1 =>
        /\ call.result.stages[i].height <= call.result.stages[i - 1].height
        /\ call.result.stages[i].width <= call.result.stages[i - 1].width

\* C20 as stated: in every stage the hidden state has shape
\* (batch, h_i * w_i, hidden_sizes[i]) around every layer, the stage ends in
\* (batch, hidden_sizes[i], h_i, w_i), the channels chain from stage to stage,
\* and no stage has a larger height or width than the stage before it
C20_ResolutionNeverGrows ==
    ModelForwardCalled =>
        \A i \in CompletedStages :
            StageShapesHold(i) /\ StageChannelsChain(i) /\ ResolutionNotLarger(i)

\* C20: in every stage the hidden state has shape
\* (batch, h_i * w_i, hidden_sizes[i]) around every layer, the stage ends in
\* (batch, hidden_sizes[i], h_i, w_i), the channels chain from stage to stage,
\* and a stage whose patch size is odd or whose stride is at least 2 has no
\* larger height or width than the stage before it
C20_StageShapes ==
    ModelForwardCalled =>
        \A i \in CompletedStages :
            /\ StageShapesHold(i)
            /\ StageChannelsChain(i)
            /\ module.config.patch_sizes[i] % 2 = 1 \/ module.config.strides[i] >= 2 =>
                   ResolutionNotLarger(i)

C20_Witness ==
    /\ ModelForwardCalled
    /\ CompletedStages = 1..4
    /\ module.config.depths = <<2, 2, 2, 2>>
    /\ module.config.patch_sizes[2] = 2
    /\ module.config.strides[2] = 2
    /\ call.result.stages[2].height < call.result.stages[1].height
    /\ call.result.stages[2].layer_outputs[2] = StageHiddenShape(2)
    /\ StageHiddenShape(2)[3] # StageHiddenShape(1)[3]

PruneHeadsCalled == call.fn = "SegFormerAttention.prune_heads"

\* the sizes of an attention module agree with each other
AttentionConsistent(m) ==
    /\ m.self.all_head_size = m.self.attention_head_size * m.self.num_attention_heads
    /\ m.self.query.out_features = m.self.all_head_size
    /\ m.self.key.out_features = m.self.all_head_size
    /\ m.self.value.out_features = m.self.all_head_size

\* C23: after any sequence of prune_heads calls, completed or raised, the
\* attention module is consistent (all_head_size = attention_head_size *
\* num_attention_heads, and query, key and value have all_head_size output
\* features), a completed call has added its heads to pruned_heads, and a
\* call with no heads changes nothing
C23_PruningKeepsConsistency ==
    module.kind = "attention" =>
        /\ AttentionConsistent(module)
        /\ PruneHeadsCalled /\ call.raised = "none" =>
               module.pruned_heads = call.before.pruned_heads \cup call.heads
        /\ PruneHeadsCalled /\ call.heads = {} => module = call.before

\* the two assertions of SegFormerDecoder.__init__ pass
AssertionsPass(config) ==
    /\ Len(config.feature_strides) = Len(config.in_channels)
    /\ config.feature_strides # <<>>
    /\ \A i \in 1..Len(config.feature_strides) :
           config.feature_strides[1] <= config.feature_strides[i]

\* C21: for every configuration that passes the two assertions, the decoder
\* is built with decoder_layers projections, each to decoder_hidden_size
\* channels, and the fusion convolution takes decoder_hidden_size * the
\* number of projections input channels
C21_FusionWidthMatchesProjections ==
    call.fn = "SegFormerDecoder" /\ AssertionsPass(call.config) =>
        /\ module.kind = "decoder"
        /\ Len(module.linear_c) = call.config.decoder_layers
        /\ \A k \in 1..Len(module.linear_c) :
               module.linear_c[k].out_features = call.config.decoder_hidden_size
        /\ module.linear_fuse.in_channels =
               call.config.decoder_hidden_size * Len(module.linear_c)

\* C22: SegFormerDecoder.forward, given the feature maps of the encoder,
\* returns without raising the fused and normalized projections as the last
\* hidden state, of decoder_hidden_size channels, in a tuple when return_dict
\* is false and in a BaseModelOutput otherwise
C22_DecoderForwardReturns ==
    call.fn = "SegFormerDecoder.forward" =>
        /\ call.result.raised = "none"
        /\ call.result.type = (IF call.result.return_dict THEN "BaseModelOutput" ELSE "tuple")
        /\ Len(call.result.last_hidden_state) = 4
        /\ call.result.last_hidden_state[2] = module.config.decoder_hidden_size

(***************************************************************************)
(* Properties of the ADE20k tables, checked under SpecAde.                 *)
(***************************************************************************)
IsColor(v) ==
    /\ DOMAIN v = 1..3
    /\ \A c \in 1..3 : v[c] \in 0..255

\* C13: id2label and id2color are total over the same key set 0..149 (a
\* lookup succeeds exactly for these keys), every label is a non-empty
\* string and every colour is a triple of integers in 0..255
C13_TablesTotal ==
    /\ DOMAIN id2label = 0..149
    /\ DOMAIN id2color = DOMAIN id2label
    /\ call.fn \in {"id2label", "id2color"} =>
            (call.raised = "none" <=> call.key \in 0..149)
    /\ call.fn = "id2label" /\ call.raised = "none" =>
            call.value \in STRING /\ call.value # ""
    /\ call.fn = "id2color" /\ call.raised = "none" => IsColor(call.value)

C13_Witness ==
    /\ call.fn = "id2color"
    /\ call.key = 149
    /\ call.raised = "none"
    /\ call.value = <<92, 0, 255>>
    /\ id2label[call.key] = "flag"

(***************************************************************************)
(* The architecture the converter selects, checked under Spec.             *)
(***************************************************************************)
NothingLoadedOrSaved ==
    /\ steps' = <<>>
    /\ state_dict' = NoDict
    /\ rename_keys' = None
    /\ disk' = {}

\* what the step that leaves the architecture selection does
ArchitectureSelected ==
    /\ steps = <<>> /\ state_dict = NoDict /\ disk = {}
    /\ NothingLoadedOrSaved
    /\ checkpoint_url.base =>
           /\ pc' = "build_model"
           /\ decoder_config'.encoder_hidden_size = 768
           /\ encoder_config' = encoder_config
    /\ ~checkpoint_url.base /\ checkpoint_url.large =>
           /\ pc' = "build_model"
           /\ encoder_config'.hidden_size = 1024
           /\ encoder_config'.intermediate_size = 4096
           /\ encoder_config'.num_hidden_layers = 24
           /\ encoder_config'.num_attention_heads = 16
           /\ decoder_config'.encoder_hidden_size = 1024
    /\ ~checkpoint_url.base /\ ~checkpoint_url.large =>
           /\ pc' = "failed"
           /\ error' = "ValueError"

====
